---- MODULE Spec2Model ----
(***************************************************************************)
(* A model of the ETL project: the correlation join of the weather         *)
(* transformer, the Snowflake loader (load / merge), the pipeline          *)
(* orchestrator (ETLPipeline.run, with the loader it is configured with),  *)
(* the chainable transform engine (DataTransformer), the purchase-order    *)
(* and weather transformers built on it (column standardisation, totals,   *)
(* date validation, fiscal calendar, severity, season, temperature         *)
(* conversion) and chunked extraction (extract_in_chunks).  Each subsystem *)
(* has its own specification over the shared variables; the variables of   *)
(* the other subsystems stay idle.                                         *)
(*                                                                         *)
(* A table (pandas DataFrame) is a record [columns, rows]: the set of      *)
(* column names and the ordered sequence of rows, each row a function      *)
(* from the column names to cell values.  Cell values are strings; NULL    *)
(* stands for a missing value (None / NaN / NaT).                          *)
(***************************************************************************)
EXTENDS Integers, Sequences, FiniteSets, TLC

VARIABLES
    \* ---- correlation join (WeatherTransformer.correlate_with_purchases)
    weather_in,     \* the weather table wrapped by the transformer (self.df)
    purchase_in,    \* the caller's purchase table (argument purchase_df)
    result,         \* the table returned by correlate_with_purchases
    jpc,            \* "ready" before the call, "returned" after it
    \* ---- warehouse loader (SnowflakeLoader.load / merge)
    warehouse,      \* table name -> [exists, rows]: the tables of the warehouse
    load_df,        \* the DataFrame handed to load / merge (its rows)
    lop,            \* the loader call in progress or completed: "load" / "merge"
    lpc,            \* position in the call, "returned" / "raised" once complete
    lret,           \* the value load returned (NoReturn when it did not return)
    reported,       \* what write_pandas reported for the last write
    \* ---- pipeline orchestrator (ETLPipeline.run); tables are row counts
    config,         \* run's flags, self.extractors (keys), self.loader set or
                    \* None, and the snowflake section of the YAML file
    rpc,            \* position in run; "returned" / "raised" once complete
    sources,        \* source -> what its extraction did in this run
    source_rows,    \* source -> rows it contributed
    frames,         \* len() of run's tables: purchase_df, weather_df, ...
    results,        \* run's results dict: status, steps, error
    load_results,   \* load_to_snowflake's results dict: table -> rows
    wh_loads,       \* the loads the warehouse accepted, in order: <<table, rows>>
    exc,            \* the exception that left a stage: [stage, message]
    trace,          \* the stages executed so far, in order
    \* ---- transform engine (DataTransformer) and the tables it references
    heap,           \* object id -> table: the DataFrame objects alive
    input0,         \* the caller's table as it was before construction
    engine,         \* the engine instance: self.df (an object id), ...
    returned,       \* what the last engine operation returned
    chain,          \* the operations applied since construction
    handed,         \* the object ids get_result has handed out (a set)
    epc,            \* "new", "ready" once constructed, "raised"
    \* ---- chunked extraction (extract_in_chunks) and its consumer
    pager,          \* the extractor and its source: kind, rows, chunk_size
    gen,            \* the generator extract_in_chunks returned: pc, offset, ...
    pages,          \* the pages the consumer has received from this generator
    pulls,          \* how many times the consumer has asked this generator
    opens           \* how many times the source has been opened

joinVars == <<weather_in, purchase_in, result, jpc>>

loaderVars == <<warehouse, load_df, lop, lpc, lret, reported>>

runVars == <<config, rpc, sources, source_rows, frames, results, load_results,
             wh_loads, exc, trace>>

engineVars == <<heap, input0, engine, returned, chain, handed, epc>>

pagerVars == <<pager, gen, pages, pulls, opens>>

vars == <<joinVars, loaderVars, runVars, engineVars, pagerVars>>

NULL == "<NA>"

Table(cols, rws) == [columns |-> cols, rows |-> rws]

EmptyFrame == Table({}, <<>>)

NoReturn == -1

NoReport == [success |-> FALSE, nrows |-> NoReturn]

\* the subsystems that a specification does not exercise
JoinIdle ==
    /\ weather_in = EmptyFrame
    /\ purchase_in = EmptyFrame
    /\ result = EmptyFrame
    /\ jpc = "off"

LoaderIdle ==
    /\ warehouse = <<>>
    /\ load_df = <<>>
    /\ lop = "none"
    /\ lpc = "off"
    /\ lret = NoReturn
    /\ reported = NoReport

NoException == [stage |-> NULL, message |-> NULL]

RunIdle ==
    /\ config = <<>>
    /\ rpc = "off"
    /\ sources = <<>>
    /\ source_rows = <<>>
    /\ frames = <<>>
    /\ results = <<>>
    /\ load_results = <<>>
    /\ wh_loads = <<>>
    /\ exc = NoException
    /\ trace = <<>>

NoEngine == [df |-> 0, original_row_count |-> 0]

\* nothing returned (yet, or because the call raised)
NoValue == [kind |-> "none", id |-> 0]

EngineIdle ==
    /\ heap = <<>>
    /\ input0 = EmptyFrame
    /\ engine = NoEngine
    /\ returned = NoValue
    /\ chain = <<>>
    /\ handed = {}
    /\ epc = "off"

\* no chunked extraction
NoGenerator == [pc |-> "none", offset |-> 0, total_rows |-> 0, first_chunk |-> FALSE]

PagerIdle ==
    /\ pager = [kind |-> "none", rows |-> <<>>, chunk_size |-> 1, exists |-> FALSE]
    /\ gen = NoGenerator
    /\ pages = <<>>
    /\ pulls = 0
    /\ opens = 0

\* ------------------------------------------------------------------------
\* Bounds and input universes
\* ------------------------------------------------------------------------

\* total number of rows of the two input tables of one join
MaxJoinRows == 3

\* raw date cells: a date-only string, the same day with a time, another day
DateCells == {"2024-01-15", "2024-01-15 12:00", "2024-04-20"}

\* raw location cells: two spellings of one city and another city
LocationCells == {"New York", "NEW YORK", "Miami"}

\* ------------------------------------------------------------------------
\* Cell conversions used by the join
\* ------------------------------------------------------------------------

\* one day of every month of 2024, as a source writes it and as a timestamp
MonthDay ==
    <<"2024-01-10", "2024-02-10", "2024-03-10", "2024-04-10", "2024-05-10",
      "2024-06-10", "2024-07-10", "2024-08-10", "2024-09-10", "2024-10-10",
      "2024-11-10", "2024-12-10">>

MonthStamp ==
    <<"2024-01-10T00:00", "2024-02-10T00:00", "2024-03-10T00:00", "2024-04-10T00:00",
      "2024-05-10T00:00", "2024-06-10T00:00", "2024-07-10T00:00", "2024-08-10T00:00",
      "2024-09-10T00:00", "2024-10-10T00:00", "2024-11-10T00:00", "2024-12-10T00:00">>

MonthOf(v, days) == CHOOSE m \in 1..12 : days[m] = v

\* pd.to_datetime on a cell: parse to a timestamp
to_datetime(v) ==
    CASE v = "2024-01-15"       -> "2024-01-15T00:00"
      [] v = "2024-01-15 12:00" -> "2024-01-15T12:00"
      [] v = "2024-04-20"       -> "2024-04-20T00:00"
      [] v = "2024-01-15T00:00" -> v
      [] v = "2024-01-15T12:00" -> v
      [] v = "2024-04-20T00:00" -> v
      [] \E m \in 1..12 : MonthDay[m] = v   -> MonthStamp[MonthOf(v, MonthDay)]
      [] \E m \in 1..12 : MonthStamp[m] = v -> v
      [] OTHER                  -> NULL

\* a cell pd.to_datetime cannot parse; without errors="coerce" it raises
Unparseable(v) == v # NULL /\ to_datetime(v) = NULL

\* Series.dt.date on a timestamp cell: the calendar day
dt_date(t) ==
    CASE t = "2024-01-15T00:00" -> "2024-01-15"
      [] t = "2024-01-15T12:00" -> "2024-01-15"
      [] t = "2024-04-20T00:00" -> "2024-04-20"
      [] OTHER                  -> NULL

\* Series.str.upper on a cell
str_upper(v) ==
    CASE v = "New York" -> "NEW YORK"
      [] v = "NEW YORK" -> "NEW YORK"
      [] v = "Miami"    -> "MIAMI"
      [] v = "MIAMI"    -> "MIAMI"
      [] OTHER          -> NULL

\* ------------------------------------------------------------------------
\* DataFrame helpers
\* ------------------------------------------------------------------------

\* df[col] = series: assign (add or overwrite) a column, one value per row
SetColumn(df, col, series) ==
    Table(df.columns \cup {col},
          [i \in 1..Len(df.rows) |->
              [c \in df.columns \cup {col} |->
                  IF c = col THEN series[i] ELSE df.rows[i][c]]])

\* df[col]: the series of one column
Column(df, col) == [i \in 1..Len(df.rows) |-> df.rows[i][col]]

\* the series obtained by pd.to_datetime / .dt.date / .str.upper
SeriesToDatetime(series) == [i \in 1..Len(series) |-> to_datetime(series[i])]
SeriesDate(series) == [i \in 1..Len(series) |-> dt_date(series[i])]
SeriesUpper(series) == [i \in 1..Len(series) |-> str_upper(series[i])]

\* df.drop(columns=cols)
DropColumns(df, cols) ==
    Table(df.columns \ cols,
          [i \in 1..Len(df.rows) |-> [c \in df.columns \ cols |-> df.rows[i][c]]])

RECURSIVE Flatten(_)
Flatten(ss) == IF ss = <<>> THEN <<>> ELSE Head(ss) \o Flatten(Tail(ss))

\* name of a right-hand column in the output of merge(suffixes=("", sfx))
RightName(c, leftCols, on, sfx) ==
    IF c \in leftCols /\ c \notin on THEN c \o sfx ELSE c

\* the right rows whose key cells equal those of left row l, in right order
MatchOnlyFirst(l, right, on) ==
    LET m == SelectSeq(right.rows, LAMBDA r : \A k \in on : r[k] = l[k])
    IN  IF m = <<>> THEN <<>> ELSE <<m[1]>>

MatchingRows(l, right, on) ==
    SelectSeq(right.rows, LAMBDA r : \A k \in on : r[k] = l[k])

\* the output of a left row without a match: with how = "left" the row is
\* kept once, its right-hand cells missing; an inner join drops it
PadInner(l, leftCols, outCols, how) == <<>>

PadUnmatched(l, leftCols, outCols, how) ==
    IF how = "left"
    THEN << [n \in outCols |-> IF n \in leftCols THEN l[n] ELSE NULL] >>
    ELSE <<>>

\* the output rows of one left row: one per matching right row
MergeRowsFor(l, left, right, on, sfx, how) ==
    LET rightOnly == right.columns \ on
        outCols == left.columns \cup
                   {RightName(c, left.columns, on, sfx) : c \in rightOnly}
        src(n) == CHOOSE c \in rightOnly : RightName(c, left.columns, on, sfx) = n
        matches == MatchingRows(l, right, on)
        joined(r) == [n \in outCols |-> IF n \in left.columns THEN l[n] ELSE r[src(n)]]
    IN  IF matches # <<>> THEN [j \in 1..Len(matches) |-> joined(matches[j])]
        ELSE PadUnmatched(l, left.columns, outCols, how)

\* left.merge(right, on=on, how=how, suffixes=("", sfx))
merge(left, right, on, how, sfx) ==
    Table(left.columns \cup
              {RightName(c, left.columns, on, sfx) : c \in right.columns \ on},
          Flatten([i \in 1..Len(left.rows) |->
                      MergeRowsFor(left.rows[i], left, right, on, sfx, how)]))

\* ------------------------------------------------------------------------
\* WeatherTransformer.correlate_with_purchases
\* ------------------------------------------------------------------------

WEATHER_DATE_COL == "OBSERVATION_DATE"
PURCHASE_DATE_COL == "ORDER_DATE"
WEATHER_LOCATION_COL == "CITY"
PURCHASE_LOCATION_COL == "DELIVERY_LOCATION"

\* the join key columns: the date always, the location when both sides have one
MergeCols(wdf, pdf) ==
    IF WEATHER_LOCATION_COL \in wdf.columns /\ PURCHASE_LOCATION_COL \in pdf.columns
    THEN {"JOIN_DATE", "JOIN_LOCATION"}
    ELSE {"JOIN_DATE"}

\* the table correlate_with_purchases returns for self.df = wdf0 and purchase_df = pdf0
Correlate(wdf0, pdf0) ==
    LET wdf1 == SetColumn(wdf0, WEATHER_DATE_COL,
                          SeriesToDatetime(Column(wdf0, WEATHER_DATE_COL)))
        pdf1 == SetColumn(pdf0, PURCHASE_DATE_COL,
                          SeriesToDatetime(Column(pdf0, PURCHASE_DATE_COL)))
        wdf2 == SetColumn(wdf1, "JOIN_DATE", SeriesDate(Column(wdf1, WEATHER_DATE_COL)))
        pdf2 == SetColumn(pdf1, "JOIN_DATE", SeriesDate(Column(pdf1, PURCHASE_DATE_COL)))
        on == MergeCols(wdf2, pdf2)
        wdf3 == IF "JOIN_LOCATION" \in on
                THEN SetColumn(wdf2, "JOIN_LOCATION",
                               SeriesUpper(Column(wdf2, WEATHER_LOCATION_COL)))
                ELSE wdf2
        pdf3 == IF "JOIN_LOCATION" \in on
                THEN SetColumn(pdf2, "JOIN_LOCATION",
                               SeriesUpper(Column(pdf2, PURCHASE_LOCATION_COL)))
                ELSE pdf2
        merged == merge(pdf3, wdf3, on, "left", "_WEATHER")
    IN  DropColumns(merged,
                    {"JOIN_DATE"} \cup
                    (IF "JOIN_LOCATION" \in merged.columns THEN {"JOIN_LOCATION"} ELSE {}))

\* input tables: a weather table with or without a CITY column, a purchase
\* table with or without a DELIVERY_LOCATION column; both carry SOURCE
WeatherRows(hasCity) ==
    IF hasCity
    THEN { [OBSERVATION_DATE |-> d, CITY |-> c, SOURCE |-> "XML"] :
             d \in DateCells, c \in LocationCells }
    ELSE { [OBSERVATION_DATE |-> d, SOURCE |-> "XML"] : d \in DateCells }

PurchaseRows(hasLoc) ==
    IF hasLoc
    THEN { [ORDER_DATE |-> d, DELIVERY_LOCATION |-> c, SOURCE |-> "CSV"] :
             d \in DateCells, c \in LocationCells }
    ELSE { [ORDER_DATE |-> d, SOURCE |-> "CSV"] : d \in DateCells }

SeqsUpTo(S, n) == UNION { [1..k -> S] : k \in 0..n }

WeatherCols(hasCity) ==
    IF hasCity THEN {"OBSERVATION_DATE", "CITY", "SOURCE"}
    ELSE {"OBSERVATION_DATE", "SOURCE"}

PurchaseCols(hasLoc) ==
    IF hasLoc THEN {"ORDER_DATE", "DELIVERY_LOCATION", "SOURCE"}
    ELSE {"ORDER_DATE", "SOURCE"}

JoinInit ==
    /\ \E hasCity \in BOOLEAN, hasLoc \in BOOLEAN :
         \E nw \in 0..MaxJoinRows :
           \E wr \in [1..nw -> WeatherRows(hasCity)] :
             \E pr \in SeqsUpTo(PurchaseRows(hasLoc), MaxJoinRows - nw) :
               /\ weather_in = Table(WeatherCols(hasCity), wr)
               /\ purchase_in = Table(PurchaseCols(hasLoc), pr)
    /\ result = EmptyFrame
    /\ jpc = "ready"
    /\ LoaderIdle
    /\ RunIdle
    /\ EngineIdle
    /\ PagerIdle

correlate_with_purchases ==
    /\ jpc = "ready"
    /\ result' = Correlate(weather_in, purchase_in)
    /\ jpc' = "returned"
    /\ UNCHANGED <<weather_in, purchase_in>>
    /\ UNCHANGED <<loaderVars, runVars, engineVars, pagerVars>>

JoinNext == correlate_with_purchases

SpecJoin == JoinInit /\ [][JoinNext]_vars

\* ------------------------------------------------------------------------
\* SnowflakeLoader: the warehouse, load and merge
\* ------------------------------------------------------------------------

\* rows of the DataFrame handed to the loader; at most this many
MaxDfRows == 2

\* rows of the target table before the call; at most this many
MaxTargetRows == 1

TABLE_NAME == "ORDERS"

TEMP_TABLE_PREFIX == "TEMP_"

TempTable == TEMP_TABLE_PREFIX \o TABLE_NAME

MERGE_KEYS == {"ID"}

LoaderRows == { [ID |-> k, VAL |-> v] : k \in {"k1", "k2"}, v \in {"a", "b"} }

Absent == [exists |-> FALSE, rows |-> <<>>]

Existing(rws) == [exists |-> TRUE, rows |-> rws]

\* What the warehouse does with one load: the connection or the TRUNCATE
\* fails, write_pandas raises (having created the table or not), or
\* write_pandas reports (success, nrows)
LoadOutcomes(d) ==
    [kind : {"connect_error", "truncate_error", "write_error", "reported"},
     created : BOOLEAN, success : BOOLEAN, nrows : {0, Len(d)}]

\* TRUNCATE TABLE IF EXISTS name (if_exists = "replace" only)
Truncate(wh, name, if_exists) ==
    IF if_exists = "replace" /\ wh[name].exists
    THEN [wh EXCEPT ![name] = Existing(<<>>)]
    ELSE wh

\* write_pandas(conn, df, name, auto_create_table=True, overwrite=...): the
\* warehouse after nrows rows of d were written
WritePandas(wh, d, name, if_exists, nrows) ==
    LET written == SubSeq(d, 1, nrows)
        before == IF if_exists = "replace" THEN <<>> ELSE wh[name].rows
    IN  [wh EXCEPT ![name] = Existing(before \o written)]

\* whether load raises after write_pandas reported rep
LoadRaisesOn(rep) == ~rep.success

\* SnowflakeLoader.load(d, name, if_exists) under outcome o: the warehouse
\* afterwards, whether the call raised, the value returned, the report seen
Load(wh, d, name, if_exists, o) ==
    IF d = <<>>
    THEN [warehouse |-> wh, raised |-> FALSE, ret |-> 0, reported |-> NoReport]
    ELSE
    CASE o.kind = "connect_error" ->
           [warehouse |-> wh, raised |-> TRUE, ret |-> NoReturn, reported |-> NoReport]
      [] o.kind = "truncate_error" ->
           [warehouse |-> wh, raised |-> TRUE, ret |-> NoReturn, reported |-> NoReport]
      [] o.kind = "write_error" ->
           [warehouse |-> LET t == Truncate(wh, name, if_exists)
                          IN  IF o.created /\ ~t[name].exists
                              THEN [t EXCEPT ![name] = Existing(<<>>)] ELSE t,
            raised |-> TRUE, ret |-> NoReturn, reported |-> NoReport]
      [] o.kind = "reported" ->
           LET rep == [success |-> o.success, nrows |-> o.nrows]
               after == WritePandas(Truncate(wh, name, if_exists), d, name,
                                    if_exists, o.nrows)
           IN  IF LoadRaisesOn(rep)
               THEN [warehouse |-> after, raised |-> TRUE, ret |-> NoReturn,
                     reported |-> rep]
               ELSE [warehouse |-> after, raised |-> FALSE, ret |-> o.nrows,
                     reported |-> rep]

\* the outcomes that can happen for this load (no TRUNCATE without "replace")
Possible(o, if_exists) ==
    /\ o.kind = "truncate_error" => if_exists = "replace"
    /\ o.kind # "write_error" => ~o.created
    /\ o.kind # "reported" => (~o.success /\ o.nrows = 0)

\* the caller invokes loader.load(load_df, TABLE_NAME, if_exists)
load ==
    /\ lpc = "ready"
    /\ \E if_exists \in {"append", "replace"} :
       \E o \in LoadOutcomes(load_df) :
         /\ Possible(o, if_exists)
         /\ LET r == Load(warehouse, load_df, TABLE_NAME, if_exists, o) IN
            /\ warehouse' = r.warehouse
            /\ lret' = r.ret
            /\ reported' = r.reported
            /\ lpc' = IF r.raised THEN "raised" ELSE "returned"
    /\ lop' = "load"
    /\ UNCHANGED load_df
    /\ UNCHANGED <<joinVars, runVars, engineVars, pagerVars>>

\* whether the MERGE statement is rejected by the warehouse: a table it names
\* is missing, or one target row is matched by several source rows
MergeRejected(wh, target, source, keys) ==
    \/ ~wh[target].exists
    \/ ~wh[source].exists
    \/ \E i \in 1..Len(wh[target].rows) :
         Cardinality({ j \in 1..Len(wh[source].rows) :
                         \A k \in keys : wh[source].rows[j][k] = wh[target].rows[i][k] }) > 1

\* MERGE INTO target USING source ON keys
\*   WHEN MATCHED THEN UPDATE SET ... WHEN NOT MATCHED THEN INSERT ...
MergeStatement(wh, target, source, keys) ==
    LET t == wh[target].rows
        s == wh[source].rows
        same(a, b) == \A k \in keys : a[k] = b[k]
        updated == [i \in 1..Len(t) |->
                      IF \E j \in 1..Len(s) : same(s[j], t[i])
                      THEN s[CHOOSE j \in 1..Len(s) : same(s[j], t[i])]
                      ELSE t[i]]
        inserted == SelectSeq(s, LAMBDA r : ~\E i \in 1..Len(t) : same(r, t[i]))
    IN  [wh EXCEPT ![target] = Existing(updated \o inserted)]

\* merge, line 203: self.load(load_df, temp_table, if_exists="replace")
merge_load ==
    /\ lpc = "ready"
    /\ \E o \in LoadOutcomes(load_df) :
         /\ Possible(o, "replace")
         /\ LET r == Load(warehouse, load_df, TempTable, "replace", o) IN
            /\ warehouse' = r.warehouse
            /\ reported' = r.reported
            /\ lpc' = IF r.raised THEN "raised" ELSE "merge_loaded"
    /\ lop' = "merge"
    /\ UNCHANGED <<load_df, lret>>
    /\ UNCHANGED <<joinVars, runVars, engineVars, pagerVars>>

\* merge, line 227: self.execute_query(merge_query); an exception leaves merge
merge_execute ==
    /\ lop = "merge" /\ lpc = "merge_loaded"
    /\ \E ok \in BOOLEAN :
         IF ok /\ ~MergeRejected(warehouse, TABLE_NAME, TempTable, MERGE_KEYS)
         THEN /\ warehouse' = MergeStatement(warehouse, TABLE_NAME, TempTable, MERGE_KEYS)
              /\ lpc' = "merge_merged"
         ELSE /\ warehouse' = warehouse
              /\ lpc' = "raised"
    /\ UNCHANGED <<load_df, lop, lret, reported>>
    /\ UNCHANGED <<joinVars, runVars, engineVars, pagerVars>>

\* merge, line 230: self.execute_query("DROP TABLE IF EXISTS temp_table")
merge_drop ==
    /\ lop = "merge" /\ lpc = "merge_merged"
    /\ \E ok \in BOOLEAN :
         IF ok
         THEN /\ warehouse' = [warehouse EXCEPT ![TempTable] = Absent]
              /\ lpc' = "returned"
         ELSE /\ warehouse' = warehouse
              /\ lpc' = "raised"
    /\ UNCHANGED <<load_df, lop, lret, reported>>
    /\ UNCHANGED <<joinVars, runVars, engineVars, pagerVars>>

\* a warehouse whose target table is missing or holds rows with distinct
\* keys, and no staging table; a DataFrame of up to MaxDfRows rows
LoaderInit ==
    /\ \E t \in {Absent} \cup
                { Existing(rws) : rws \in
                    { q \in SeqsUpTo(LoaderRows, MaxTargetRows) :
                        \A i, j \in 1..Len(q) : i # j => q[i].ID # q[j].ID } } :
         warehouse = (TABLE_NAME :> t) @@ (TempTable :> Absent)
    /\ load_df \in SeqsUpTo(LoaderRows, MaxDfRows)
    /\ lop = "none"
    /\ lpc = "ready"
    /\ lret = NoReturn
    /\ reported = NoReport
    /\ JoinIdle
    /\ RunIdle
    /\ EngineIdle
    /\ PagerIdle

LoaderNext == load \/ merge_load \/ merge_execute \/ merge_drop

SpecLoader == LoaderInit /\ [][LoaderNext]_vars

\* ------------------------------------------------------------------------
\* ETLPipeline: extraction, transformation and load phases of run
\* ------------------------------------------------------------------------

\* rows one source can deliver; at most this many
MaxSourceRows == 1

PurchaseSources == <<"csv", "postgres">>

WeatherSources == <<"xml", "snowflake_marketplace">>

AllSources == {"csv", "postgres", "xml", "snowflake_marketplace"}

\* what a source does when asked: it delivers rows, its file is missing
\* (FileNotFoundError), or it fails otherwise (parse error, query error)
SourceOutcomes ==
    [kind : {"ok", "not_found", "error"}, rows : 0..MaxSourceRows]

\* the exception a failing source raises
SourceError(src, kind) ==
    IF kind = "not_found" THEN src \o ": file not found" ELSE src \o ": extraction error"

\* the except clause around each source: the file sources catch
\* FileNotFoundError only, the database sources catch Exception
CaughtNever(src, kind) == FALSE

Caught(src, kind) ==
    CASE src = "csv"                   -> kind = "not_found"
      [] src = "postgres"              -> TRUE
      [] src = "xml"                   -> kind = "not_found"
      [] src = "snowflake_marketplace" -> TRUE

\* One of extract_purchase_orders / extract_weather_data over its two
\* sources s1, s2 with outcomes o1, o2: what each source did ("extracted",
\* "not_found", "error") and the rows it contributed, the length of the
\* combined frame, and the exception that escapes the function (if any)
ExtractFrom(s1, s2, o1, o2, extractors) ==
    LET idle(src) == IF src \in extractors THEN "pending" ELSE "unconfigured"
        st(src, o) == IF src \notin extractors THEN "unconfigured"
                      ELSE IF o.kind = "ok" THEN "extracted"
                      ELSE o.kind
        escapes(src, o) == src \in extractors /\ o.kind # "ok" /\ ~Caught(src, o.kind)
        n(src, o) == IF st(src, o) = "extracted" THEN o.rows ELSE 0
        st2 == IF escapes(s1, o1) THEN idle(s2) ELSE st(s2, o2)
        n2 == IF escapes(s1, o1) THEN 0 ELSE n(s2, o2)
    IN  [status |-> (s1 :> st(s1, o1)) @@ (s2 :> st2),
         rows |-> (s1 :> n(s1, o1)) @@ (s2 :> n2),
         total |-> n(s1, o1) + n2,
         error |-> IF escapes(s1, o1) THEN SourceError(s1, o1.kind)
                   ELSE IF escapes(s2, o2) THEN SourceError(s2, o2.kind)
                   ELSE NULL]

\* outcomes are distinguished only where the code looks at them
Relevant(src, o, extractors) ==
    /\ src \notin extractors => (o.kind = "ok" /\ o.rows = 0)
    /\ o.kind # "ok" => o.rows = 0
    /\ src \in {"postgres", "snowflake_marketplace"} => o.kind # "not_found"

\* run's results dict at line 408
InitialResults == [status |-> "success", steps |-> <<>>, error |-> NULL]

\* the except clause of run (lines 463-467): record the failure
OnExceptionUnrecorded(res, message) == res

OnException(res, message) ==
    [res EXCEPT !.status = "failed", !.error = message]

\* `if extract:` / `if transform:` / `if load:`
RunsPhaseAlways(phase) == TRUE

RunsPhase(phase) == config[phase]

\* an exception leaves stage `stage`: run records it and re-raises
Raise(stage, message) ==
    /\ exc' = [stage |-> stage, message |-> message]
    /\ results' = OnException(results, message)
    /\ rpc' = "raised"

\* ---- extraction phase (lines 419-428)
extract_purchase_orders ==
    /\ rpc = "start" /\ RunsPhase("extract")
    /\ trace' = Append(trace, "extract_purchase_orders")
    /\ \E o1, o2 \in SourceOutcomes :
         /\ Relevant(PurchaseSources[1], o1, config.extractors)
         /\ Relevant(PurchaseSources[2], o2, config.extractors)
         /\ LET e == ExtractFrom(PurchaseSources[1], PurchaseSources[2], o1, o2,
                                 config.extractors) IN
            /\ sources' = e.status @@ sources
            /\ source_rows' = e.rows @@ source_rows
            /\ IF e.error # NULL
               THEN /\ Raise("extract_purchase_orders", e.error)
                    /\ UNCHANGED frames
               ELSE /\ frames' = [frames EXCEPT !.purchase_df = e.total]
                    /\ rpc' = "extract_weather"
                    /\ UNCHANGED <<results, exc>>
    /\ UNCHANGED <<config, load_results, wh_loads>>
    /\ UNCHANGED <<joinVars, loaderVars, engineVars, pagerVars>>

extract_weather_data ==
    /\ rpc = "extract_weather"
    /\ trace' = Append(trace, "extract_weather_data")
    /\ \E o1, o2 \in SourceOutcomes :
         /\ Relevant(WeatherSources[1], o1, config.extractors)
         /\ Relevant(WeatherSources[2], o2, config.extractors)
         /\ LET e == ExtractFrom(WeatherSources[1], WeatherSources[2], o1, o2,
                                 config.extractors) IN
            /\ sources' = e.status @@ sources
            /\ source_rows' = e.rows @@ source_rows
            /\ IF e.error # NULL
               THEN /\ Raise("extract_weather_data", e.error)
                    /\ UNCHANGED frames
               ELSE /\ frames' = [frames EXCEPT !.weather_df = e.total]
                    /\ results' = [results EXCEPT !.steps =
                                     ("extract" :> [purchase_orders |-> frames.purchase_df,
                                                    weather_data |-> e.total]) @@ @]
                    /\ rpc' = "transform"
                    /\ UNCHANGED exc
    /\ UNCHANGED <<config, load_results, wh_loads>>
    /\ UNCHANGED <<joinVars, loaderVars, engineVars, pagerVars>>

skip_extract ==
    /\ rpc = "start" /\ ~RunsPhase("extract")
    /\ rpc' = "transform"
    /\ UNCHANGED <<config, sources, source_rows, frames, results, load_results,
                   wh_loads, exc, trace>>
    /\ UNCHANGED <<joinVars, loaderVars, engineVars, pagerVars>>

\* ---- transformation phase (lines 435-449)
\* a transformer chain over n > 0 rows keeps some of them or raises
\* (a step that indexes a column the source lacks); an empty frame is
\* returned as it is
TransformOutcomes(n) ==
    IF n = 0 THEN { [raised |-> FALSE, rows |-> 0] }
    ELSE { [raised |-> FALSE, rows |-> k] : k \in 0..n } \cup
         { [raised |-> TRUE, rows |-> 0] }

\* create_analytics_table over p purchase rows and w weather rows: empty
\* when either is empty, else the left join (p to p * w rows) or its error
AnalyticsOutcomes_purchase_only(p, w) ==
    IF p = 0 THEN { [raised |-> FALSE, rows |-> 0] }
    ELSE { [raised |-> FALSE, rows |-> p], [raised |-> TRUE, rows |-> 0] }

AnalyticsOutcomes(p, w) ==
    IF p = 0 \/ w = 0 THEN { [raised |-> FALSE, rows |-> 0] }
    ELSE { [raised |-> FALSE, rows |-> k] : k \in p..(p * w) } \cup
         { [raised |-> TRUE, rows |-> 0] }

transform_purchase_orders ==
    /\ rpc = "transform" /\ RunsPhase("transform")
    /\ trace' = Append(trace, "transform_purchase_orders")
    /\ \E o \in TransformOutcomes(frames.purchase_df) :
         IF o.raised
         THEN /\ Raise("transform_purchase_orders", "transform error")
              /\ UNCHANGED frames
         ELSE /\ frames' = [frames EXCEPT !.transformed_purchase_df = o.rows]
              /\ rpc' = "transform_weather"
              /\ UNCHANGED <<results, exc>>
    /\ UNCHANGED <<config, sources, source_rows, load_results, wh_loads>>
    /\ UNCHANGED <<joinVars, loaderVars, engineVars, pagerVars>>

transform_weather_data ==
    /\ rpc = "transform_weather"
    /\ trace' = Append(trace, "transform_weather_data")
    /\ \E o \in TransformOutcomes(frames.weather_df) :
         IF o.raised
         THEN /\ Raise("transform_weather_data", "transform error")
              /\ UNCHANGED frames
         ELSE /\ frames' = [frames EXCEPT !.transformed_weather_df = o.rows]
              /\ rpc' = "analytics"
              /\ UNCHANGED <<results, exc>>
    /\ UNCHANGED <<config, sources, source_rows, load_results, wh_loads>>
    /\ UNCHANGED <<joinVars, loaderVars, engineVars, pagerVars>>

create_analytics_table ==
    /\ rpc = "analytics"
    /\ trace' = Append(trace, "create_analytics_table")
    /\ \E o \in AnalyticsOutcomes(frames.transformed_purchase_df,
                                  frames.transformed_weather_df) :
         IF o.raised
         THEN /\ Raise("create_analytics_table", "correlation error")
              /\ UNCHANGED frames
         ELSE /\ frames' = [frames EXCEPT !.analytics_df = o.rows]
              /\ results' = [results EXCEPT !.steps =
                               ("transform" :>
                                  [purchase_orders |-> frames.transformed_purchase_df,
                                   weather_data |-> frames.transformed_weather_df,
                                   analytics |-> o.rows]) @@ @]
              /\ rpc' = "load"
              /\ UNCHANGED exc
    /\ UNCHANGED <<config, sources, source_rows, load_results, wh_loads>>
    /\ UNCHANGED <<joinVars, loaderVars, engineVars, pagerVars>>

skip_transform ==
    /\ rpc = "transform" /\ ~RunsPhase("transform")
    /\ rpc' = "load"
    /\ UNCHANGED <<config, sources, source_rows, frames, results, load_results,
                   wh_loads, exc, trace>>
    /\ UNCHANGED <<joinVars, loaderVars, engineVars, pagerVars>>

\* ---- loading phase (lines 452-461, load_to_snowflake lines 356-386)
PURCHASE_ORDERS == "PURCHASE_ORDERS"
WEATHER_DATA == "WEATHER_DATA"
PURCHASE_WEATHER_ANALYTICS == "PURCHASE_WEATHER_ANALYTICS"

\* loader.load(frame of n rows, table, if_exists="append"): it raises, or
\* returns the row count the warehouse reported
PipelineLoadOutcomes(n) ==
    { [raised |-> TRUE, rows |-> 0] } \cup
    { [raised |-> FALSE, rows |-> k] : k \in {0, n} }

LoadBlock_rolls_back(frame, table, next) ==
    IF frames[frame] = 0
    THEN /\ rpc' = next
         /\ UNCHANGED <<load_results, wh_loads, results, exc>>
    ELSE \E o \in PipelineLoadOutcomes(frames[frame]) :
           IF o.raised
           THEN /\ Raise("load_to_snowflake", "Failed to load data into " \o table)
                /\ load_results' = <<>>
                /\ wh_loads' = <<>>
           ELSE /\ load_results' = (table :> o.rows) @@ load_results
                /\ wh_loads' = Append(wh_loads, <<table, o.rows>>)
                /\ rpc' = next
                /\ UNCHANGED <<results, exc>>

\* one `if not frame.empty:` block of load_to_snowflake
LoadBlock(frame, table, next) ==
    IF frames[frame] = 0
    THEN /\ rpc' = next
         /\ UNCHANGED <<load_results, wh_loads, results, exc>>
    ELSE \E o \in PipelineLoadOutcomes(frames[frame]) :
           IF o.raised
           THEN /\ Raise("load_to_snowflake", "Failed to load data into " \o table)
                /\ UNCHANGED <<load_results, wh_loads>>
           ELSE /\ load_results' = (table :> o.rows) @@ load_results
                /\ wh_loads' = Append(wh_loads, <<table, o.rows>>)
                /\ rpc' = next
                /\ UNCHANGED <<results, exc>>

load_to_snowflake_requires_loader ==
    /\ rpc = "load" /\ RunsPhase("load")
    /\ trace' = Append(trace, "load_to_snowflake")
    /\ IF ~config.loader
       THEN Raise("load_to_snowflake", "Snowflake loader not configured")
       ELSE /\ rpc' = "load_purchase_orders"
            /\ UNCHANGED <<results, exc>>
    /\ UNCHANGED <<config, sources, source_rows, frames, load_results, wh_loads>>
    /\ UNCHANGED <<joinVars, loaderVars, engineVars, pagerVars>>

\* load_to_snowflake is entered; without a loader it returns {} at once
load_to_snowflake ==
    /\ rpc = "load" /\ RunsPhase("load")
    /\ trace' = Append(trace, "load_to_snowflake")
    /\ IF ~config.loader
       THEN /\ results' = [results EXCEPT !.steps = ("load" :> <<>>) @@ @]
            /\ rpc' = "finish"
       ELSE /\ rpc' = "load_purchase_orders"
            /\ UNCHANGED results
    /\ UNCHANGED <<config, sources, source_rows, frames, load_results, wh_loads, exc>>
    /\ UNCHANGED <<joinVars, loaderVars, engineVars, pagerVars>>

load_purchase_orders ==
    /\ rpc = "load_purchase_orders"
    /\ LoadBlock("transformed_purchase_df", PURCHASE_ORDERS, "load_weather_data")
    /\ UNCHANGED <<config, sources, source_rows, frames, trace>>
    /\ UNCHANGED <<joinVars, loaderVars, engineVars, pagerVars>>

load_weather_data ==
    /\ rpc = "load_weather_data"
    /\ LoadBlock("transformed_weather_df", WEATHER_DATA, "load_analytics")
    /\ UNCHANGED <<config, sources, source_rows, frames, trace>>
    /\ UNCHANGED <<joinVars, loaderVars, engineVars, pagerVars>>

load_analytics ==
    /\ rpc = "load_analytics"
    /\ LoadBlock("analytics_df", PURCHASE_WEATHER_ANALYTICS, "load_return")
    /\ UNCHANGED <<config, sources, source_rows, frames, trace>>
    /\ UNCHANGED <<joinVars, loaderVars, engineVars, pagerVars>>

\* load_to_snowflake returns its results; run stores them under "load"
load_return ==
    /\ rpc = "load_return"
    /\ results' = [results EXCEPT !.steps = ("load" :> load_results) @@ @]
    /\ rpc' = "finish"
    /\ UNCHANGED <<config, sources, source_rows, frames, load_results, wh_loads,
                   exc, trace>>
    /\ UNCHANGED <<joinVars, loaderVars, engineVars, pagerVars>>

skip_load ==
    /\ rpc = "load" /\ ~RunsPhase("load")
    /\ rpc' = "finish"
    /\ UNCHANGED <<config, sources, source_rows, frames, results, load_results,
                   wh_loads, exc, trace>>
    /\ UNCHANGED <<joinVars, loaderVars, engineVars, pagerVars>>

\* lines 469-478: no exception, run returns results
run_return ==
    /\ rpc = "finish"
    /\ rpc' = "returned"
    /\ UNCHANGED <<config, sources, source_rows, frames, results, load_results,
                   wh_loads, exc, trace>>
    /\ UNCHANGED <<joinVars, loaderVars, engineVars, pagerVars>>

\* ---- configuration (lines 80-98, 143-154)
\* the environment variables that are set
ENVIRON == [SNOWFLAKE_SET |-> "secret"]

getenv(name, default) == IF name \in DOMAIN ENVIRON THEN ENVIRON[name] ELSE default

\* a value of the YAML file: a ${VAR} string is replaced by the variable's
\* value, or by "" when the variable is unset; anything else stays
substitute_env_vars(v) ==
    CASE v = "${SNOWFLAKE_SET}"   -> getenv("SNOWFLAKE_SET", "")
      [] v = "${SNOWFLAKE_UNSET}" -> getenv("SNOWFLAKE_UNSET", "")
      [] OTHER                    -> v

\* Python truth of what dict.get returns: None (key absent) and "" are false
truthy(v) == v \notin {NULL, ""}

\* the connection parameters the loader needs
LOADER_REQUIRED == {"account", "user", "password", "database"}

\* the connection parameters the marketplace extractor needs
MARKETPLACE_REQUIRED == {"account", "user", "password"}

\* what the file says about a parameter: a literal, a reference to a set
\* or to an unset variable, or nothing (NULL: the key is absent)
YamlValues == {"xy12345", "${SNOWFLAKE_SET}", "${SNOWFLAKE_UNSET}", NULL}

\* the snowflake section of the file: at most one parameter is not a literal
SnowflakeSections ==
    { sf \in [LOADER_REQUIRED -> YamlValues] :
        Cardinality({ k \in LOADER_REQUIRED : sf[k] # "xy12345" }) <= 1 }

\* `if all([sf_config.get(...), ...])` over the substituted section
all_present(sf, keys) == \A k \in keys : truthy(substitute_env_vars(sf[k]))

\* run(extract, transform, load) is called on a pipeline built from any
\* snowflake section, with any set of extractors the section allows
RunInit ==
    /\ config \in [extract : BOOLEAN, transform : BOOLEAN, load : BOOLEAN,
                   extractors : SUBSET AllSources, loader : BOOLEAN,
                   snowflake : SnowflakeSections]
    /\ config.loader = all_present(config.snowflake, LOADER_REQUIRED)
    /\ "snowflake_marketplace" \in config.extractors =>
         all_present(config.snowflake, MARKETPLACE_REQUIRED)
    /\ rpc = "start"
    /\ sources = [s \in AllSources |->
                    IF s \in config.extractors THEN "pending" ELSE "unconfigured"]
    /\ source_rows = [s \in AllSources |-> 0]
    /\ frames = [purchase_df |-> 0, weather_df |-> 0, transformed_purchase_df |-> 0,
                 transformed_weather_df |-> 0, analytics_df |-> 0]
    /\ results = InitialResults
    /\ load_results = <<>>
    /\ wh_loads = <<>>
    /\ exc = NoException
    /\ trace = <<>>
    /\ JoinIdle
    /\ LoaderIdle
    /\ EngineIdle
    /\ PagerIdle

RunNext ==
    \/ extract_purchase_orders \/ extract_weather_data \/ skip_extract
    \/ transform_purchase_orders \/ transform_weather_data \/ create_analytics_table
    \/ skip_transform
    \/ load_to_snowflake \/ load_purchase_orders \/ load_weather_data
    \/ load_analytics \/ load_return \/ skip_load
    \/ run_return

SpecRun == RunInit /\ [][RunNext]_vars

\* ------------------------------------------------------------------------
\* Transform engine: DataTransformer (src/transformers/data_transformer.py)
\*
\* DataFrames are objects: heap[id] is the table held by object id.  The
\* caller's input table is object CallerRef; the engine's self.df is an
\* object id.  An operation written  self.df = self.df.<op>(...)  binds
\* self.df to a NEW object; one written  self.df[col] = ...  changes the
\* object self.df refers to, and with it every other reference to it.
\* ------------------------------------------------------------------------

\* rows of the caller's table
MaxEngineRows == 2

\* operations invoked on one engine
MaxChain == 2

NameCells == {"  Bob  ", NULL}
ValueCells == {"100", "200"}

EngineRows == { [name |-> n, value |-> v] : n \in NameCells, v \in ValueCells }

EngineCols == {"name", "value"}

\* the object holding the caller's table, and the engine instance itself
CallerRef == 1
SelfId == 1

\* columns=None / subset=None: every column
AllColumns == {}

isna(v) == v = NULL

\* Series.str.upper / Series.str.strip on one cell (nulls stay null)
text_upper(v) ==
    CASE v = "  Bob  " -> "  BOB  "
      [] v = "Bob"     -> "BOB"
      [] v = "Unknown" -> "UNKNOWN"
      [] OTHER         -> v

text_strip(v) ==
    CASE v = "  Bob  " -> "Bob"
      [] v = "  BOB  " -> "BOB"
      [] OTHER         -> v

\* pd.to_numeric(errors="coerce") on one cell: a float, or null
to_numeric(v) ==
    CASE v = "100"   -> "100.0"
      [] v = "200"   -> "200.0"
      [] v = "100.0" -> "100.0"
      [] v = "200.0" -> "200.0"
      [] v = "1.5"   -> "1.5"
      [] OTHER       -> NULL

\* .astype("Int64") on a float cell: the integer, if the float is one
Integral(f) == f \in {"100.0", "200.0", NULL}

to_Int64(f) ==
    CASE f = "100.0" -> "100"
      [] f = "200.0" -> "200"
      [] OTHER       -> NULL

\* the test's calculated column: row["value"] * 2 if notna else 0
doubled(v) ==
    CASE v = "100"   -> "200"
      [] v = "200"   -> "400"
      [] v = "100.0" -> "200.0"
      [] v = "200.0" -> "400.0"
      [] OTHER       -> "0"

\* the test's filter condition: df["value"] > 150
gt150(v) == v \in {"200", "200.0"}

\* the rows of a table at the positions where keep holds, in order
RECURSIVE KeepRows(_, _)
KeepRows(rws, keep) ==
    IF rws = <<>> THEN <<>>
    ELSE (IF keep[1] THEN <<rws[1]>> ELSE <<>>)
         \o KeepRows(Tail(rws), Tail(keep))

\* dropna that drops a row only when all columns of the subset are null
dropna_how_all(t, subset, how) ==
    LET cols == IF subset = AllColumns THEN t.columns ELSE subset
    IN Table(t.columns,
             KeepRows(t.rows, [i \in 1..Len(t.rows) |->
                                  \E c \in cols : ~isna(t.rows[i][c])]))

\* drop_duplicates that ignores subset= and compares whole rows
pd_drop_duplicates_whole_rows(t, subset, keep) ==
    Table(t.columns,
          KeepRows(t.rows, [i \in 1..Len(t.rows) |->
                               IF keep = "first"
                               THEN ~\E j \in 1..(i - 1) : t.rows[i] = t.rows[j]
                               ELSE ~\E j \in (i + 1)..Len(t.rows) :
                                        t.rows[i] = t.rows[j]]))

\* DataFrame.dropna(subset=, how=)
dropna(t, subset, how) ==
    LET cols == IF subset = AllColumns THEN t.columns ELSE subset
        drop(r) == IF how = "any" THEN \E c \in cols : isna(r[c])
                   ELSE cols # {} /\ \A c \in cols : isna(r[c])
    IN Table(t.columns,
             KeepRows(t.rows, [i \in 1..Len(t.rows) |-> ~drop(t.rows[i])]))

\* DataFrame.fillna({col: value}); columns the table lacks are ignored
fillna(t, fill_values) ==
    Table(t.columns,
          [i \in 1..Len(t.rows) |->
              [c \in t.columns |->
                  IF c \in DOMAIN fill_values /\ isna(t.rows[i][c])
                  THEN fill_values[c] ELSE t.rows[i][c]]])

\* DataFrame.drop_duplicates(subset=, keep=)
pd_drop_duplicates(t, subset, keep) ==
    LET cols == IF subset = AllColumns THEN t.columns ELSE subset
        same(i, j) == \A c \in cols : t.rows[i][c] = t.rows[j][c]
        kept(i) == IF keep = "first"
                   THEN ~\E j \in 1..(i - 1) : same(i, j)
                   ELSE ~\E j \in (i + 1)..Len(t.rows) : same(i, j)
    IN Table(t.columns,
             KeepRows(t.rows, [i \in 1..Len(t.rows) |-> kept(i)]))

\* DataFrame.rename(columns=mapping); names the table lacks are ignored
NewName(c, column_mapping) ==
    IF c \in DOMAIN column_mapping THEN column_mapping[c] ELSE c

OldName(n, cols, column_mapping) ==
    CHOOSE c \in cols : NewName(c, column_mapping) = n

rename(t, column_mapping) ==
    LET ncols == { NewName(c, column_mapping) : c \in t.columns }
    IN Table(ncols,
             [i \in 1..Len(t.rows) |->
                 [n \in ncols |-> t.rows[i][OldName(n, t.columns, column_mapping)]]])

\* df[columns] with a list of columns
getitem_columns(t, cols) ==
    Table(cols, [i \in 1..Len(t.rows) |-> [c \in cols |-> t.rows[i][c]]])

\* df[mask] with a boolean series
getitem_mask(t, mask) == Table(t.columns, KeepRows(t.rows, mask))

\* a lookup of columns the table lacks raises KeyError
KeyError(t, cols) == ~(cols \subseteq t.columns)

\* DataFrame.apply(func, axis=1): a series with one value per row.  On a
\* frame without rows pandas calls func once on a row of NaN over the
\* frame's columns: if that call raises, apply returns a copy of the (empty)
\* frame, otherwise an empty series.
ApplyRowsKind(t, probe_raises) ==
    IF t.rows = <<>> /\ probe_raises THEN "frame" ELSE "series"

\* self.df[name] = <result of apply>: a frame is accepted for one column only
\* if it has exactly one column
SetItemRaises(t, kind) == kind = "frame" /\ Cardinality(t.columns) # 1

\* ---- the object graph ---------------------------------------------------

\* self.df = df, without a copy: the same object under a second reference
df_alias(hp, ref) == [heap |-> hp, ref |-> ref]

\* df.copy(): a new object with the same contents
df_copy(hp, ref) == [heap |-> Append(hp, hp[ref]), ref |-> Len(hp) + 1]

\* <table> computed but not assigned: self.df keeps its old object
RebindDropped(t) ==
    /\ heap' = Append(heap, t)
    /\ engine' = engine

\* self.df = <table>: the result is a new object and self.df is bound to it
Rebind(t) ==
    /\ heap' = Append(heap, t)
    /\ engine' = [engine EXCEPT !.df = Len(heap) + 1]

\* self.df[col] = ...: the object self.df refers to is changed where it is
InPlace(t) ==
    /\ heap' = [heap EXCEPT ![engine.df] = t]
    /\ engine' = engine

\* the table self.df refers to
SelfDf == heap[engine.df]

\* return self / return self.df
ReturnSelf == [kind |-> "engine", id |-> SelfId]

ReturnDf == [kind |-> "table", id |-> engine.df]

\* the caller holds the engine and invokes the next operation on it
Chainable ==
    /\ epc = "ready"
    /\ Len(chain) < MaxChain

Record(op) == chain' = Append(chain, op)

\* an exception leaves the engine as it is and ends the chain
Raises(op) ==
    /\ epc' = "raised"
    /\ Record(op)
    /\ returned' = NoValue
    /\ UNCHANGED <<heap, engine>>

Returns(op) ==
    /\ epc' = epc
    /\ Record(op)
    /\ returned' = ReturnSelf

\* ---- the operations as functions of the wrapped table --------------------

DropNullsArgs == {AllColumns, {"name"}}
DropDuplicatesArgs == {AllColumns, {"value"}}
DropDuplicatesKeep == {"first"}
FILL_VALUES == [name |-> "Unknown"]
COLUMN_MAPPING == [name |-> "NAME"]
SELECTED == {"name"}
TYPE_MAPPING == [value |-> "float"]
TEXT_COLUMNS == {"name"}

\* an invocation, as recorded in chain: the operation and its argument
OpDropNulls(cols) == [op |-> "drop_nulls", arg |-> cols]
OpDropDuplicates(cols, keep) ==
    [op |-> "drop_duplicates", arg |-> [subset |-> cols, keep |-> keep]]
OpAddColumn(kind) == [op |-> "add_column", arg |-> {kind}]
OpConvertTypes(type_mapping) == [op |-> "convert_types", arg |-> type_mapping]
Op(name) == [op |-> name, arg |-> {}]

AddColumnStatic(t, column_name, value) ==
    SetColumn(t, column_name, [i \in 1..Len(t.rows) |-> value])

AddColumnCallable(t, column_name) ==
    SetColumn(t, column_name, [i \in 1..Len(t.rows) |-> doubled(t.rows[i].value)])

\* one cell cast to a kind; "datetime" and "int" can raise, see CastRaises
CastCell(v, dtype) ==
    CASE dtype = "datetime" -> to_datetime(v)
      [] dtype = "float"    -> to_numeric(v)
      [] dtype = "int"      -> to_Int64(to_numeric(v))

\* pd.to_datetime without errors="coerce" raises on a cell it cannot parse;
\* astype("Int64") raises on a float that is not a whole number
CastRaises(t, col, dtype) ==
    \E i \in 1..Len(t.rows) :
        \/ dtype = "datetime" /\ Unparseable(t.rows[i][col])
        \/ dtype = "int" /\ ~Integral(to_numeric(t.rows[i][col]))

\* the columns of the mapping that the loop converts
Converted(t, type_mapping) == DOMAIN type_mapping \cap t.columns

ConvertRaises(t, type_mapping) ==
    \E col \in Converted(t, type_mapping) : CastRaises(t, col, type_mapping[col])

ConvertTypes(t, type_mapping) ==
    Table(t.columns,
          [i \in 1..Len(t.rows) |->
              [c \in t.columns |->
                  IF c \in Converted(t, type_mapping)
                  THEN CastCell(t.rows[i][c], type_mapping[c])
                  ELSE t.rows[i][c]]])

RECURSIVE StandardizeText(_, _, _)
StandardizeText(t, cols, case) ==
    IF cols = {} THEN t
    ELSE LET col == CHOOSE c \in cols : TRUE
             up == IF case = "upper"
                   THEN [i \in 1..Len(t.rows) |-> text_upper(t.rows[i][col])]
                   ELSE Column(t, col)
             t1 == IF col \in t.columns
                   THEN SetColumn(t, col,
                                  [i \in 1..Len(t.rows) |-> text_strip(up[i])])
                   ELSE t
         IN StandardizeText(t1, cols \ {col}, case)

\* ---- actions ------------------------------------------------------------

\* DataTransformer(df)
DataTransformer_init ==
    /\ epc = "new"
    /\ LET c == df_copy(heap, CallerRef) IN
         /\ heap' = c.heap
         /\ engine' = [df |-> c.ref,
                       original_row_count |-> Len(heap[CallerRef].rows)]
    /\ epc' = "ready"
    /\ returned' = ReturnSelf
    /\ UNCHANGED <<input0, chain, handed>>
    /\ UNCHANGED <<joinVars, loaderVars, runVars, pagerVars>>

\* get_result(): hands out self.df itself
get_result ==
    /\ epc = "ready"
    /\ returned # ReturnDf
    /\ handed' = handed \cup {engine.df}
    /\ returned' = ReturnDf
    /\ UNCHANGED <<heap, input0, engine, chain, epc>>
    /\ UNCHANGED <<joinVars, loaderVars, runVars, pagerVars>>

drop_nulls ==
    /\ Chainable
    /\ \E columns \in DropNullsArgs :
         IF KeyError(SelfDf, columns)
         THEN Raises(OpDropNulls(columns))
         ELSE /\ Rebind(dropna(SelfDf, columns, "any"))
              /\ Returns(OpDropNulls(columns))
    /\ UNCHANGED <<input0, handed>>
    /\ UNCHANGED <<joinVars, loaderVars, runVars, pagerVars>>

fill_nulls ==
    /\ Chainable
    /\ Rebind(fillna(SelfDf, FILL_VALUES))
    /\ Returns(Op("fill_nulls"))
    /\ UNCHANGED <<input0, handed>>
    /\ UNCHANGED <<joinVars, loaderVars, runVars, pagerVars>>

drop_duplicates ==
    /\ Chainable
    /\ \E columns \in DropDuplicatesArgs, keep \in DropDuplicatesKeep :
         IF KeyError(SelfDf, columns)
         THEN Raises(OpDropDuplicates(columns, keep))
         ELSE /\ Rebind(pd_drop_duplicates(SelfDf, columns, keep))
              /\ Returns(OpDropDuplicates(columns, keep))
    /\ UNCHANGED <<input0, handed>>
    /\ UNCHANGED <<joinVars, loaderVars, runVars, pagerVars>>

rename_columns ==
    /\ Chainable
    /\ Rebind(rename(SelfDf, COLUMN_MAPPING))
    /\ Returns(Op("rename_columns"))
    /\ UNCHANGED <<input0, handed>>
    /\ UNCHANGED <<joinVars, loaderVars, runVars, pagerVars>>

select_columns ==
    /\ Chainable
    /\ IF KeyError(SelfDf, SELECTED)
       THEN Raises(Op("select_columns"))
       ELSE /\ Rebind(getitem_columns(SelfDf, SELECTED))
            /\ Returns(Op("select_columns"))
    /\ UNCHANGED <<input0, handed>>
    /\ UNCHANGED <<joinVars, loaderVars, runVars, pagerVars>>

\* add_column(name, value): a static value, or a function of the row (the
\* test's function reads row["value"], a KeyError where the column is absent)
add_column ==
    /\ Chainable
    /\ \/ /\ InPlace(AddColumnStatic(SelfDf, "category", "A"))
          /\ Returns(OpAddColumn("static"))
       \/ LET missing == KeyError(SelfDf, {"value"})
              kind == ApplyRowsKind(SelfDf, missing)
          IN IF (SelfDf.rows # <<>> /\ missing) \/ SetItemRaises(SelfDf, kind)
             THEN Raises(OpAddColumn("callable"))
             ELSE /\ InPlace(AddColumnCallable(SelfDf, "doubled"))
                  /\ Returns(OpAddColumn("callable"))
    /\ UNCHANGED <<input0, handed>>
    /\ UNCHANGED <<joinVars, loaderVars, runVars, pagerVars>>

\* convert_types(type_mapping), for mappings of one column
convert_types_with(type_mapping) ==
    /\ Chainable
    /\ IF ConvertRaises(SelfDf, type_mapping)
       THEN Raises(OpConvertTypes(type_mapping))
       ELSE /\ InPlace(ConvertTypes(SelfDf, type_mapping))
            /\ Returns(OpConvertTypes(type_mapping))
    /\ UNCHANGED <<input0, handed>>
    /\ UNCHANGED <<joinVars, loaderVars, runVars, pagerVars>>

convert_types == convert_types_with(TYPE_MAPPING)

filter_rows ==
    /\ Chainable
    /\ IF KeyError(SelfDf, {"value"})
       THEN Raises(Op("filter_rows"))
       ELSE /\ Rebind(getitem_mask(SelfDf,
                        [i \in 1..Len(SelfDf.rows) |-> gt150(SelfDf.rows[i].value)]))
            /\ Returns(Op("filter_rows"))
    /\ UNCHANGED <<input0, handed>>
    /\ UNCHANGED <<joinVars, loaderVars, runVars, pagerVars>>

standardize_text ==
    /\ Chainable
    /\ InPlace(StandardizeText(SelfDf, TEXT_COLUMNS, "upper"))
    /\ Returns(Op("standardize_text"))
    /\ UNCHANGED <<input0, handed>>
    /\ UNCHANGED <<joinVars, loaderVars, runVars, pagerVars>>

EngineInit ==
    /\ \E rws \in SeqsUpTo(EngineRows, MaxEngineRows) :
         /\ input0 = Table(EngineCols, rws)
         /\ heap = <<Table(EngineCols, rws)>>
    /\ engine = NoEngine
    /\ returned = NoValue
    /\ chain = <<>>
    /\ handed = {}
    /\ epc = "new"
    /\ JoinIdle
    /\ LoaderIdle
    /\ RunIdle
    /\ PagerIdle

EngineNext ==
    \/ DataTransformer_init
    \/ get_result
    \/ drop_nulls
    \/ fill_nulls
    \/ drop_duplicates
    \/ rename_columns
    \/ select_columns
    \/ add_column
    \/ convert_types
    \/ filter_rows
    \/ standardize_text

SpecEngine == EngineInit /\ [][EngineNext]_vars

\* ------------------------------------------------------------------------
\* Casts: convert_types over columns that hold malformed values
\* ------------------------------------------------------------------------

\* rows of the table that is cast
MaxCastRows == 2

\* a date, a string that is no date, a missing date
CastDateCells == {"2024-01-15", "invalid-date", NULL}

\* a number, a string that is no number, a number that is no integer
CastValueCells == {"100", "abc", "1.5"}

CastRows == { [date |-> d, value |-> v] : d \in CastDateCells, v \in CastValueCells }

CastCols == {"date", "value"}

CastMappings == {[date |-> "datetime"], [value |-> "float"], [value |-> "int"]}

CastInit ==
    /\ \E rws \in SeqsUpTo(CastRows, MaxCastRows) :
         /\ input0 = Table(CastCols, rws)
         /\ heap = <<Table(CastCols, rws)>>
    /\ engine = NoEngine
    /\ returned = NoValue
    /\ chain = <<>>
    /\ handed = {}
    /\ epc = "new"
    /\ JoinIdle
    /\ LoaderIdle
    /\ RunIdle
    /\ PagerIdle

convert_types_cast == \E type_mapping \in CastMappings : convert_types_with(type_mapping)

CastNext ==
    \/ DataTransformer_init
    \/ convert_types_cast
    \/ get_result

SpecCast == CastInit /\ [][CastNext]_vars

\* ------------------------------------------------------------------------
\* Purchase-order transformer: PurchaseOrderTransformer
\* (src/transformers/purchase_order_transformer.py), an engine whose chains
\* are those of the orchestrator and of the test suite.
\*
\* Numeric columns hold integers: quantities as they are, money in cents.
\* The null of a numeric column is NaN.
\* ------------------------------------------------------------------------

\* rows of a raw purchase-order table
MaxPurchaseRows == 1

\* NaN: the null of a numeric column (no quantity or amount is negative)
NaN == -1

isnan(x) == x = NaN

\* cents per currency unit: 25.50 is 2550
CENTS == 100

\* x + y in place of x * y
Plus(x, y) == IF isnan(x) \/ isnan(y) THEN NaN ELSE x + y

\* x * y on numeric series, one of them in cents; NaN propagates
Times(x, y) == IF isnan(x) \/ isnan(y) THEN NaN ELSE x * y

\* raw cells per source column
PoNumberCells == {"PO-001", NULL}
OrderDateCells == {"2024-01-15", "invalid-date"}
VendorCells == {"Acme"}
QuantityCells == {100, NaN}
UnitPriceCells == {2550}
TotalCells == {100000, NaN}

\* amounts on both sides of every category boundary, in cents
BoundaryAmounts == {9999, 10000, 99999, 100000, 999999, 1000000, NaN}

RawPurchaseCols == {"po_number", "order_date", "vendor", "quantity", "unit_price", "total"}

RawPurchaseRows ==
    [po_number : PoNumberCells, order_date : OrderDateCells, vendor : VendorCells,
     quantity : QuantityCells, unit_price : UnitPriceCells, total : TotalCells]

\* every row over the given columns
RowsOver(cols) == { [c \in cols |-> r[c]] : r \in RawPurchaseRows }

\* rows of a table that has the amount column only
BoundaryRows == { [total |-> a] : a \in BoundaryAmounts }

\* PurchaseOrderTransformer.standardize_columns: the synonym table
PO_COLUMN_MAPPING ==
    [po_number |-> "PURCHASE_ORDER_ID", po_id |-> "PURCHASE_ORDER_ID",
     order_id |-> "PURCHASE_ORDER_ID",
     order_date |-> "ORDER_DATE", date |-> "ORDER_DATE",
     vendor |-> "VENDOR_NAME", vendor_name |-> "VENDOR_NAME",
     supplier |-> "VENDOR_NAME",
     item |-> "ITEM_DESCRIPTION", item_description |-> "ITEM_DESCRIPTION",
     product |-> "ITEM_DESCRIPTION",
     quantity |-> "QUANTITY", qty |-> "QUANTITY",
     unit_price |-> "UNIT_PRICE", price |-> "UNIT_PRICE",
     total |-> "TOTAL_AMOUNT", total_amount |-> "TOTAL_AMOUNT",
     status |-> "ORDER_STATUS", order_status |-> "ORDER_STATUS",
     location |-> "DELIVERY_LOCATION", delivery_location |-> "DELIVERY_LOCATION"]

\* {k: v for k, v in column_mapping.items() if k in self.df.columns}
ExistingColumns(t, column_mapping) ==
    [k \in DOMAIN column_mapping \cap t.columns |-> column_mapping[k]]

\* categorize with the boundaries on the lower category (<= for <)
categorize_upper_inclusive(amount) ==
    IF isnan(amount) THEN "UNKNOWN"
    ELSE IF amount <= 100 * CENTS THEN "SMALL"
    ELSE IF amount <= 1000 * CENTS THEN "MEDIUM"
    ELSE IF amount <= 10000 * CENTS THEN "LARGE"
    ELSE "ENTERPRISE"

\* categorize(amount), amounts in cents
categorize(amount) ==
    IF isnan(amount) THEN "UNKNOWN"
    ELSE IF amount < 100 * CENTS THEN "SMALL"
    ELSE IF amount < 1000 * CENTS THEN "MEDIUM"
    ELSE IF amount < 10000 * CENTS THEN "LARGE"
    ELSE "ENTERPRISE"

\* Timestamp.year / Timestamp.month; NaN on NaT
dt_year(x) ==
    CASE x \in {"2024-01-15T00:00", "2024-01-15T12:00", "2024-04-20T00:00"} -> 2024
      [] \E m \in 1..12 : MonthStamp[m] = x -> 2024
      [] OTHER -> NaN

dt_month(x) ==
    CASE x \in {"2024-01-15T00:00", "2024-01-15T12:00"} -> 1
      [] x = "2024-04-20T00:00" -> 4
      [] \E m \in 1..12 : MonthStamp[m] = x -> MonthOf(x, MonthStamp)
      [] OTHER -> NaN

FISCAL_YEAR_START_MONTH == 1

\* lambda x: x.year if x.month >= start else x.year - 1  (NaN >= n is False)
FiscalYear(x, start) ==
    IF isnan(dt_month(x)) THEN NaN
    ELSE IF dt_month(x) >= start THEN dt_year(x) ELSE dt_year(x) - 1

\* the fiscal quarter without the wrap-around of the months before the start
FiscalQuarter_no_wrap(x, start) ==
    IF isnan(dt_month(x)) THEN NaN
    ELSE ((dt_month(x) - start) \div 3) + 1

\* lambda x: ((x.month - start) % 12) // 3 + 1
FiscalQuarter(x, start) ==
    IF isnan(dt_month(x)) THEN NaN
    ELSE (((dt_month(x) - start) % 12) \div 3) + 1

\* datetime.now(), the value of the ETL_TIMESTAMP column
NOW == "<now>"

CalculateTotals(t) ==
    SetColumn(t, "TOTAL_AMOUNT",
              [i \in 1..Len(t.rows) |-> Times(t.rows[i]["QUANTITY"], t.rows[i]["UNIT_PRICE"])])

CategorizeOrders(t, amount_column) ==
    SetColumn(t, "ORDER_CATEGORY",
              [i \in 1..Len(t.rows) |-> categorize(t.rows[i][amount_column])])

AddFiscalInfo(t, date_column, start) ==
    LET t1 == SetColumn(t, date_column, SeriesToDatetime(Column(t, date_column)))
        t2 == SetColumn(t1, "FISCAL_YEAR",
                        [i \in 1..Len(t1.rows) |-> FiscalYear(t1.rows[i][date_column], start)])
    IN SetColumn(t2, "FISCAL_QUARTER",
                 [i \in 1..Len(t2.rows) |-> FiscalQuarter(t2.rows[i][date_column], start)])

\* ---- the chains ----------------------------------------------------------

\* transform_purchase_orders, and the chains of the transformer's tests
PURCHASE_PIPELINE ==
    <<"standardize_columns", "drop_nulls", "drop_duplicates", "calculate_totals",
      "validate_order_dates", "categorize_orders", "add_fiscal_info", "add_column">>

PurchasePlans ==
    {PURCHASE_PIPELINE,
     <<"standardize_columns", "calculate_totals", "categorize_orders">>,
     <<"standardize_columns", "add_fiscal_info">>,
     <<"standardize_columns", "validate_order_dates">>}

\* the calls made so far are one of the chains, from its first to its last
Finished(plans) ==
    \E plan \in plans :
        /\ Len(chain) = Len(plan)
        /\ \A i \in 1..Len(chain) : plan[i] = chain[i].op

\* the named operation is the next call of one of the chains
Planned(name, plans) ==
    /\ epc = "ready"
    /\ \E plan \in plans :
         /\ Len(chain) < Len(plan)
         /\ plan[Len(chain) + 1] = name
         /\ \A i \in 1..Len(chain) : plan[i] = chain[i].op

\* an operation that does nothing and returns self
NoOp(op) ==
    /\ Returns(op)
    /\ UNCHANGED <<heap, engine>>

\* ---- actions -------------------------------------------------------------

purchase_standardize_columns ==
    /\ Planned("standardize_columns", PurchasePlans)
    /\ LET existing_columns == ExistingColumns(SelfDf, PO_COLUMN_MAPPING) IN
         IF DOMAIN existing_columns # {}
         THEN /\ Rebind(rename(SelfDf, existing_columns))
              /\ Returns(Op("standardize_columns"))
         ELSE NoOp(Op("standardize_columns"))
    /\ UNCHANGED <<input0, handed>>
    /\ UNCHANGED <<joinVars, loaderVars, runVars, pagerVars>>

\* .drop_nulls(columns=["PURCHASE_ORDER_ID"])
purchase_drop_nulls ==
    /\ Planned("drop_nulls", PurchasePlans)
    /\ IF KeyError(SelfDf, {"PURCHASE_ORDER_ID"})
       THEN Raises(OpDropNulls({"PURCHASE_ORDER_ID"}))
       ELSE /\ Rebind(dropna(SelfDf, {"PURCHASE_ORDER_ID"}, "any"))
            /\ Returns(OpDropNulls({"PURCHASE_ORDER_ID"}))
    /\ UNCHANGED <<input0, handed>>
    /\ UNCHANGED <<joinVars, loaderVars, runVars, pagerVars>>

\* .drop_duplicates(columns=["PURCHASE_ORDER_ID"])
purchase_drop_duplicates ==
    /\ Planned("drop_duplicates", PurchasePlans)
    /\ IF KeyError(SelfDf, {"PURCHASE_ORDER_ID"})
       THEN Raises(OpDropDuplicates({"PURCHASE_ORDER_ID"}, "first"))
       ELSE /\ Rebind(pd_drop_duplicates(SelfDf, {"PURCHASE_ORDER_ID"}, "first"))
            /\ Returns(OpDropDuplicates({"PURCHASE_ORDER_ID"}, "first"))
    /\ UNCHANGED <<input0, handed>>
    /\ UNCHANGED <<joinVars, loaderVars, runVars, pagerVars>>

\* calculate_totals without its test for an existing TOTAL_AMOUNT
calculate_totals_overwrites ==
    /\ Planned("calculate_totals", PurchasePlans)
    /\ IF "QUANTITY" \in SelfDf.columns /\ "UNIT_PRICE" \in SelfDf.columns
       THEN /\ InPlace(CalculateTotals(SelfDf))
            /\ Returns(Op("calculate_totals"))
       ELSE NoOp(Op("calculate_totals"))
    /\ UNCHANGED <<input0, handed>>
    /\ UNCHANGED <<joinVars, loaderVars, runVars, pagerVars>>

calculate_totals ==
    /\ Planned("calculate_totals", PurchasePlans)
    /\ IF "TOTAL_AMOUNT" \notin SelfDf.columns
          /\ "QUANTITY" \in SelfDf.columns /\ "UNIT_PRICE" \in SelfDf.columns
       THEN /\ InPlace(CalculateTotals(SelfDf))
            /\ Returns(Op("calculate_totals"))
       ELSE NoOp(Op("calculate_totals"))
    /\ UNCHANGED <<input0, handed>>
    /\ UNCHANGED <<joinVars, loaderVars, runVars, pagerVars>>

\* validate_order_dates(): the column is converted where it is
\* (errors="coerce"), then self.df is bound to the rows with a date
validate_order_dates ==
    /\ Planned("validate_order_dates", PurchasePlans)
    /\ IF "ORDER_DATE" \notin SelfDf.columns
       THEN NoOp(Op("validate_order_dates"))
       ELSE LET t1 == SetColumn(SelfDf, "ORDER_DATE",
                                SeriesToDatetime(Column(SelfDf, "ORDER_DATE")))
            IN /\ heap' = Append([heap EXCEPT ![engine.df] = t1],
                                 dropna(t1, {"ORDER_DATE"}, "any"))
               /\ engine' = [engine EXCEPT !.df = Len(heap) + 1]
               /\ Returns(Op("validate_order_dates"))
    /\ UNCHANGED <<input0, handed>>
    /\ UNCHANGED <<joinVars, loaderVars, runVars, pagerVars>>

categorize_orders ==
    /\ Planned("categorize_orders", PurchasePlans)
    /\ IF "TOTAL_AMOUNT" \notin SelfDf.columns
       THEN NoOp(Op("categorize_orders"))
       ELSE /\ InPlace(CategorizeOrders(SelfDf, "TOTAL_AMOUNT"))
            /\ Returns(Op("categorize_orders"))
    /\ UNCHANGED <<input0, handed>>
    /\ UNCHANGED <<joinVars, loaderVars, runVars, pagerVars>>

\* add_fiscal_info(): pd.to_datetime here has no errors="coerce"
add_fiscal_info ==
    /\ Planned("add_fiscal_info", PurchasePlans)
    /\ IF "ORDER_DATE" \notin SelfDf.columns
       THEN NoOp(Op("add_fiscal_info"))
       ELSE IF \E i \in 1..Len(SelfDf.rows) : Unparseable(SelfDf.rows[i]["ORDER_DATE"])
       THEN Raises(Op("add_fiscal_info"))
       ELSE /\ InPlace(AddFiscalInfo(SelfDf, "ORDER_DATE", FISCAL_YEAR_START_MONTH))
            /\ Returns(Op("add_fiscal_info"))
    /\ UNCHANGED <<input0, handed>>
    /\ UNCHANGED <<joinVars, loaderVars, runVars, pagerVars>>

\* .add_column("ETL_TIMESTAMP", datetime.now())
purchase_add_column ==
    /\ Planned("add_column", PurchasePlans)
    /\ InPlace(AddColumnStatic(SelfDf, "ETL_TIMESTAMP", NOW))
    /\ Returns(OpAddColumn("static"))
    /\ UNCHANGED <<input0, handed>>
    /\ UNCHANGED <<joinVars, loaderVars, runVars, pagerVars>>

\* .get_result(), the last call of a chain
purchase_get_result == Finished(PurchasePlans) /\ get_result

PurchaseInit ==
    /\ \/ \E cols \in SUBSET RawPurchaseCols :
            \E rws \in SeqsUpTo(RowsOver(cols), MaxPurchaseRows) :
              /\ input0 = Table(cols, rws)
              /\ heap = <<Table(cols, rws)>>
       \/ \E rws \in SeqsUpTo(BoundaryRows, MaxPurchaseRows) :
              /\ input0 = Table({"total"}, rws)
              /\ heap = <<Table({"total"}, rws)>>
    /\ engine = NoEngine
    /\ returned = NoValue
    /\ chain = <<>>
    /\ handed = {}
    /\ epc = "new"
    /\ JoinIdle
    /\ LoaderIdle
    /\ RunIdle
    /\ PagerIdle

PurchaseNext ==
    \/ DataTransformer_init
    \/ purchase_standardize_columns
    \/ purchase_drop_nulls
    \/ purchase_drop_duplicates
    \/ calculate_totals
    \/ validate_order_dates
    \/ categorize_orders
    \/ add_fiscal_info
    \/ purchase_add_column
    \/ purchase_get_result

SpecPurchase == PurchaseInit /\ [][PurchaseNext]_vars

\* ------------------------------------------------------------------------
\* Weather transformer: WeatherTransformer
\* (src/transformers/weather_transformer.py), an engine whose chains are
\* those of the orchestrator and of the test suite.
\*
\* Temperatures are whole degrees Fahrenheit, wind speeds whole mph,
\* precipitation is in hundredths of an inch; none is negative here, and
\* the null of these columns is NaN.
\* ------------------------------------------------------------------------

\* rows of a raw weather table that goes through a whole chain
MaxWeatherRows == 1

\* hundredths per inch: 1.2in is 120
HUNDREDTHS == 100

\* cells on both sides of every severity threshold
TemperatureCells == {20, 25, 31, 32, 39, 40, 90, 91, 100, 101, NaN}
PrecipitationCells == {0, 50, 51, 100, 101, 120, NaN}
WindCells == {0, 15, 16, 30, 31, NaN}

SeverityCols == {"temperature", "precipitation", "wind_speed"}

SeverityRows ==
    [temperature : TemperatureCells, precipitation : PrecipitationCells,
     wind_speed : WindCells]

\* cells of the tables that go through a whole chain
RawWeatherCols == {"date", "temperature", "precipitation", "wind_speed"}

RawWeatherRows ==
    [date : {"2024-04-20", "invalid-date", NULL}, temperature : {25, NaN},
     precipitation : {120}, wind_speed : {35}]

\* str.lower() on a column name
name_lower(c) ==
    CASE c = "Temperature" -> "temperature"
      [] c = "DATE"        -> "date"
      [] OTHER             -> c

\* WeatherTransformer.standardize_columns: the synonym table
WEATHER_COLUMN_MAPPING ==
    [date |-> "OBSERVATION_DATE", observation_date |-> "OBSERVATION_DATE",
     datetime |-> "OBSERVATION_DATE",
     city |-> "CITY", location |-> "CITY",
     state |-> "STATE", region |-> "STATE", country |-> "COUNTRY",
     temperature |-> "TEMPERATURE_F", temp |-> "TEMPERATURE_F",
     avg_temperature_f |-> "TEMPERATURE_F", temperature_f |-> "TEMPERATURE_F",
     min_temperature_f |-> "MIN_TEMPERATURE_F", min_temp |-> "MIN_TEMPERATURE_F",
     max_temperature_f |-> "MAX_TEMPERATURE_F", max_temp |-> "MAX_TEMPERATURE_F",
     humidity |-> "HUMIDITY_PCT", humidity_pct |-> "HUMIDITY_PCT",
     precipitation |-> "PRECIPITATION_INCHES",
     precipitation_inches |-> "PRECIPITATION_INCHES",
     rain |-> "PRECIPITATION_INCHES",
     wind_speed |-> "WIND_SPEED_MPH", wind_speed_mph |-> "WIND_SPEED_MPH",
     wind |-> "WIND_SPEED_MPH",
     conditions |-> "WEATHER_CONDITIONS", weather |-> "WEATHER_CONDITIONS"]

\* existing_columns: the table's columns whose lower-cased name is a synonym
ExistingWeatherColumns(t) ==
    [c \in { c \in t.columns : name_lower(c) \in DOMAIN WEATHER_COLUMN_MAPPING } |->
        WEATHER_COLUMN_MAPPING[name_lower(c)]]

\* the field of a row counts if the row has it and it is not null
HasField(row, cols, c) == c \in cols /\ ~isnan(row[c])

\* calculate_severity: the three terms of the score
\* the temperature term with its two tests in the other order
TemperatureTerm_outer_band_first(row, cols) ==
    IF ~HasField(row, cols, "TEMPERATURE_F") THEN 0
    ELSE LET temp == row["TEMPERATURE_F"] IN
         IF temp < 40 \/ temp > 90 THEN 1
         ELSE IF temp < 32 \/ temp > 100 THEN 2
         ELSE 0

TemperatureTerm(row, cols) ==
    IF ~HasField(row, cols, "TEMPERATURE_F") THEN 0
    ELSE LET temp == row["TEMPERATURE_F"] IN
         IF temp < 32 \/ temp > 100 THEN 2
         ELSE IF temp < 40 \/ temp > 90 THEN 1
         ELSE 0

PrecipitationTerm(row, cols) ==
    IF ~HasField(row, cols, "PRECIPITATION_INCHES") THEN 0
    ELSE LET precip == row["PRECIPITATION_INCHES"] IN
         IF precip > 1 * HUNDREDTHS THEN 2
         ELSE IF 2 * precip > 1 * HUNDREDTHS THEN 1
         ELSE 0

WindTerm(row, cols) ==
    IF ~HasField(row, cols, "WIND_SPEED_MPH") THEN 0
    ELSE LET wind == row["WIND_SPEED_MPH"] IN
         IF wind > 30 THEN 2
         ELSE IF wind > 15 THEN 1
         ELSE 0

severity_score(row, cols) ==
    TemperatureTerm(row, cols) + PrecipitationTerm(row, cols) + WindTerm(row, cols)

\* a classification that calls a score of 1 MODERATE already
classify_from_one(score) ==
    IF score >= 4 THEN "SEVERE"
    ELSE IF score >= 1 THEN "MODERATE"
    ELSE "NORMAL"

classify(score) ==
    IF score >= 4 THEN "SEVERE"
    ELSE IF score >= 2 THEN "MODERATE"
    ELSE "NORMAL"

calculate_severity(row, cols) == classify(severity_score(row, cols))

\* calculate_severity without its `in row.index` tests raises on a row that
\* lacks a field
SeverityProbeUnguarded(cols) ==
    ~({"TEMPERATURE_F", "PRECIPITATION_INCHES", "WIND_SPEED_MPH"} \subseteq cols)

\* calculate_severity tests `in row.index` before every read: it raises on
\* no row, not on the row of NaN that apply passes for an empty frame either
SeverityProbeRaises(cols) == FALSE

AddWeatherSeverity(t) ==
    SetColumn(t, "WEATHER_SEVERITY",
              [i \in 1..Len(t.rows) |-> calculate_severity(t.rows[i], t.columns)])

\* get_season that does not look at the hemisphere
get_season_northern_only(month, hemisphere) ==
    IF month \in {12, 1, 2} THEN "WINTER"
    ELSE IF month \in {3, 4, 5} THEN "SPRING"
    ELSE IF month \in {6, 7, 8} THEN "SUMMER"
    ELSE "FALL"

\* get_season(month); a NaN month is in none of the lists
get_season(month, hemisphere) ==
    IF hemisphere = "northern"
    THEN IF month \in {12, 1, 2} THEN "WINTER"
         ELSE IF month \in {3, 4, 5} THEN "SPRING"
         ELSE IF month \in {6, 7, 8} THEN "SUMMER"
         ELSE "FALL"
    ELSE IF month \in {12, 1, 2} THEN "SUMMER"
         ELSE IF month \in {3, 4, 5} THEN "FALL"
         ELSE IF month \in {6, 7, 8} THEN "WINTER"
         ELSE "SPRING"

AddSeason(t, date_column, hemisphere) ==
    LET t1 == SetColumn(t, date_column, SeriesToDatetime(Column(t, date_column)))
    IN SetColumn(t1, "SEASON",
                 [i \in 1..Len(t1.rows) |->
                     get_season(dt_month(t1.rows[i][date_column]), hemisphere)])

\* transform_weather_data, and the chains of the transformer's tests
WEATHER_PIPELINE ==
    <<"standardize_columns", "drop_nulls", "add_weather_severity", "add_season",
      "add_column">>

WeatherPlans ==
    {WEATHER_PIPELINE,
     <<"standardize_columns", "add_weather_severity">>,
     <<"standardize_columns", "add_season">>}

\* ---- actions -------------------------------------------------------------

weather_standardize_columns ==
    /\ Planned("standardize_columns", WeatherPlans)
    /\ LET existing_columns == ExistingWeatherColumns(SelfDf) IN
         IF DOMAIN existing_columns # {}
         THEN /\ Rebind(rename(SelfDf, existing_columns))
              /\ Returns(Op("standardize_columns"))
         ELSE NoOp(Op("standardize_columns"))
    /\ UNCHANGED <<input0, handed>>
    /\ UNCHANGED <<joinVars, loaderVars, runVars, pagerVars>>

\* .drop_nulls(columns=["OBSERVATION_DATE"])
weather_drop_nulls ==
    /\ Planned("drop_nulls", WeatherPlans)
    /\ IF KeyError(SelfDf, {"OBSERVATION_DATE"})
       THEN Raises(OpDropNulls({"OBSERVATION_DATE"}))
       ELSE /\ Rebind(dropna(SelfDf, {"OBSERVATION_DATE"}, "any"))
            /\ Returns(OpDropNulls({"OBSERVATION_DATE"}))
    /\ UNCHANGED <<input0, handed>>
    /\ UNCHANGED <<joinVars, loaderVars, runVars, pagerVars>>

add_weather_severity ==
    /\ Planned("add_weather_severity", WeatherPlans)
    /\ IF SetItemRaises(SelfDf, ApplyRowsKind(SelfDf, SeverityProbeRaises(SelfDf.columns)))
       THEN Raises(Op("add_weather_severity"))
       ELSE /\ InPlace(AddWeatherSeverity(SelfDf))
            /\ Returns(Op("add_weather_severity"))
    /\ UNCHANGED <<input0, handed>>
    /\ UNCHANGED <<joinVars, loaderVars, runVars, pagerVars>>

\* add_season(): pd.to_datetime here has no errors="coerce"
add_season ==
    /\ Planned("add_season", WeatherPlans)
    /\ IF "OBSERVATION_DATE" \notin SelfDf.columns
       THEN NoOp(Op("add_season"))
       ELSE IF \E i \in 1..Len(SelfDf.rows) :
                  Unparseable(SelfDf.rows[i]["OBSERVATION_DATE"])
       THEN Raises(Op("add_season"))
       ELSE /\ InPlace(AddSeason(SelfDf, "OBSERVATION_DATE", "northern"))
            /\ Returns(Op("add_season"))
    /\ UNCHANGED <<input0, handed>>
    /\ UNCHANGED <<joinVars, loaderVars, runVars, pagerVars>>

\* .add_column("ETL_TIMESTAMP", datetime.now())
weather_add_column ==
    /\ Planned("add_column", WeatherPlans)
    /\ InPlace(AddColumnStatic(SelfDf, "ETL_TIMESTAMP", NOW))
    /\ Returns(OpAddColumn("static"))
    /\ UNCHANGED <<input0, handed>>
    /\ UNCHANGED <<joinVars, loaderVars, runVars, pagerVars>>

\* .get_result(), the last call of a chain
weather_get_result == Finished(WeatherPlans) /\ get_result

\* a table of one row over some of the severity columns, or a table of up to
\* MaxWeatherRows rows over some of the raw columns, the temperature column
\* spelled in lower case or capitalised
WeatherInit ==
    /\ \/ \E cols \in SUBSET SeverityCols : \E r \in SeverityRows :
            /\ input0 = Table(cols, <<[c \in cols |-> r[c]]>>)
            /\ heap = <<Table(cols, <<[c \in cols |-> r[c]]>>)>>
       \/ \E cols \in SUBSET RawWeatherCols, spelling \in {"temperature", "Temperature"} :
            \E rws \in SeqsUpTo({ [c \in cols |-> r[c]] : r \in RawWeatherRows },
                                MaxWeatherRows) :
               LET t == rename(Table(cols, rws), [temperature |-> spelling]) IN
               /\ input0 = t
               /\ heap = <<t>>
    /\ engine = NoEngine
    /\ returned = NoValue
    /\ chain = <<>>
    /\ handed = {}
    /\ epc = "new"
    /\ JoinIdle
    /\ LoaderIdle
    /\ RunIdle
    /\ PagerIdle

WeatherNext ==
    \/ DataTransformer_init
    \/ weather_standardize_columns
    \/ weather_drop_nulls
    \/ add_weather_severity
    \/ add_season
    \/ weather_add_column
    \/ weather_get_result

SpecWeather == WeatherInit /\ [][WeatherNext]_vars

\* ------------------------------------------------------------------------
\* The column index of a table as pandas keeps it: a sequence of labels,
\* which rename(columns=...) maps one by one and which may then repeat.
\* A frame here is [labels, rows], a row being the sequence of its cells in
\* the order of the labels. (Table and rename above stand for frames whose
\* labels stay distinct, which is the case of every source of the other
\* specifications: none has two synonyms of one canonical name.)
\* ------------------------------------------------------------------------

\* columns and rows of a source
MaxLabels == 2
MaxLabelRows == 1

\* synonyms of one canonical name, a canonical name, a name that differs
\* from a synonym by case only, and a name that is no synonym
SourceLabels == {"po_number", "order_id", "total", "TOTAL_AMOUNT", "Vendor", "notes"}

LabelCells == {"a", "b"}

Frame(labels, rws) == [labels |-> labels, rows |-> rws]

Distinct(labels) ==
    \A i, j \in 1..Len(labels) : labels[i] = labels[j] => i = j

\* DataFrame.rename(columns=mapper) on the index: every label in the mapper
\* is replaced, the others are kept, positions and cells stay
rename_labels(f, mapper) ==
    Frame([j \in 1..Len(f.labels) |-> NewName(f.labels[j], mapper)], f.rows)

\* existing_columns of PurchaseOrderTransformer.standardize_columns
ExistingLabels(f, column_mapping) ==
    [k \in DOMAIN column_mapping \cap { f.labels[j] : j \in 1..Len(f.labels) } |->
        column_mapping[k]]

LabelPlans == {<<"standardize_columns">>}

\* PurchaseOrderTransformer.standardize_columns on the frame
labels_standardize_columns ==
    /\ Planned("standardize_columns", LabelPlans)
    /\ LET existing_columns == ExistingLabels(SelfDf, PO_COLUMN_MAPPING) IN
         IF DOMAIN existing_columns # {}
         THEN /\ Rebind(rename_labels(SelfDf, existing_columns))
              /\ Returns(Op("standardize_columns"))
         ELSE NoOp(Op("standardize_columns"))
    /\ UNCHANGED <<input0, handed>>
    /\ UNCHANGED <<joinVars, loaderVars, runVars, pagerVars>>

labels_get_result == Finished(LabelPlans) /\ get_result

\* a source with distinct column names
LabelsInit ==
    /\ \E n \in 0..MaxLabels : \E labels \in [1..n -> SourceLabels] :
         /\ Distinct(labels)
         /\ \E rws \in SeqsUpTo([1..n -> LabelCells], MaxLabelRows) :
              /\ input0 = Frame(labels, rws)
              /\ heap = <<Frame(labels, rws)>>
    /\ engine = NoEngine
    /\ returned = NoValue
    /\ chain = <<>>
    /\ handed = {}
    /\ epc = "new"
    /\ JoinIdle
    /\ LoaderIdle
    /\ RunIdle
    /\ PagerIdle

LabelsNext ==
    \/ DataTransformer_init
    \/ labels_standardize_columns
    \/ labels_get_result

SpecLabels == LabelsInit /\ [][LabelsNext]_vars

\* ------------------------------------------------------------------------
\* validate_order_dates with a date range
\* (src/transformers/purchase_order_transformer.py:87-125)
\* ------------------------------------------------------------------------

\* rows of a source of dated orders
MaxDateRows == 2

\* the timestamps in their order
TIMELINE ==
    <<"2024-01-10T00:00", "2024-01-15T00:00", "2024-01-15T12:00", "2024-02-10T00:00",
      "2024-03-10T00:00", "2024-04-10T00:00", "2024-04-20T00:00", "2024-05-10T00:00",
      "2024-06-10T00:00", "2024-07-10T00:00", "2024-08-10T00:00", "2024-09-10T00:00",
      "2024-10-10T00:00", "2024-11-10T00:00", "2024-12-10T00:00">>

Instant(x) == CHOOSE i \in 1..Len(TIMELINE) : TIMELINE[i] = x

\* series > timestamp, the bound itself excluded
series_gt(x, bound) == ~isna(x) /\ Instant(x) > Instant(bound)

\* series >= timestamp and series <= timestamp on a cell; NaT compares False
series_ge(x, bound) == ~isna(x) /\ Instant(x) >= Instant(bound)

series_le(x, bound) == ~isna(x) /\ Instant(x) <= Instant(bound)

\* dates before, on, between, on and after the bounds; a string that is no
\* date; null
RangeDateCells ==
    {"2024-02-10", "2024-03-10", "2024-05-10", "2024-06-10", "2024-07-10",
     "invalid-date", NULL}

RangeRows == [order_date : RangeDateCells, vendor : {"Acme"}]

\* min_date / max_date: None or a date
MinDates == {NULL, "2024-03-10"}
MaxDates == {NULL, "2024-06-10"}

OpValidate(min_date, max_date) ==
    [op |-> "validate_order_dates", arg |-> [min_date |-> min_date, max_date |-> max_date]]

\* the column converted where it is (errors="coerce")
CoerceDates(t, date_column) ==
    SetColumn(t, date_column, SeriesToDatetime(Column(t, date_column)))

\* the two optional filters and the final dropna, on the converted table
FilterDates(t1, date_column, min_date, max_date) ==
    LET t2 == IF min_date # NULL
              THEN getitem_mask(t1, [i \in 1..Len(t1.rows) |->
                                       series_ge(t1.rows[i][date_column], to_datetime(min_date))])
              ELSE t1
        t3 == IF max_date # NULL
              THEN getitem_mask(t2, [i \in 1..Len(t2.rows) |->
                                       series_le(t2.rows[i][date_column], to_datetime(max_date))])
              ELSE t2
    IN dropna(t3, {date_column}, "any")

\* validate_order_dates(min_date=, max_date=): self.df ends bound to a new
\* object (the tables of the filters in between are referred to by nothing)
validate_order_dates_range ==
    /\ Planned("validate_order_dates", PurchasePlans)
    /\ \E min_date \in MinDates, max_date \in MaxDates :
         IF "ORDER_DATE" \notin SelfDf.columns
         THEN NoOp(OpValidate(min_date, max_date))
         ELSE LET t1 == CoerceDates(SelfDf, "ORDER_DATE") IN
              /\ heap' = Append([heap EXCEPT ![engine.df] = t1],
                                FilterDates(t1, "ORDER_DATE", min_date, max_date))
              /\ engine' = [engine EXCEPT !.df = Len(heap) + 1]
              /\ Returns(OpValidate(min_date, max_date))
    /\ UNCHANGED <<input0, handed>>
    /\ UNCHANGED <<joinVars, loaderVars, runVars, pagerVars>>

dates_get_result ==
    /\ Len(chain) = 2
    /\ chain[2].op = "validate_order_dates"
    /\ get_result

DatesInit ==
    /\ \E cols \in {{"order_date", "vendor"}, {"vendor"}} :
         \E rws \in SeqsUpTo({ [c \in cols |-> r[c]] : r \in RangeRows }, MaxDateRows) :
           /\ input0 = Table(cols, rws)
           /\ heap = <<Table(cols, rws)>>
    /\ engine = NoEngine
    /\ returned = NoValue
    /\ chain = <<>>
    /\ handed = {}
    /\ epc = "new"
    /\ JoinIdle
    /\ LoaderIdle
    /\ RunIdle
    /\ PagerIdle

DatesNext ==
    \/ DataTransformer_init
    \/ purchase_standardize_columns
    \/ validate_order_dates_range
    \/ dates_get_result

SpecDates == DatesInit /\ [][DatesNext]_vars

\* ------------------------------------------------------------------------
\* add_fiscal_info with a fiscal year that starts in any month
\* (src/transformers/purchase_order_transformer.py:160-194)
\* ------------------------------------------------------------------------

\* rows of a source of orders dated in the twelve months
MaxFiscalRows == 1

FiscalRows ==
    { [order_date |-> MonthDay[m]] : m \in 1..12 }
        \cup {[order_date |-> NULL], [order_date |-> "invalid-date"]}

OpFiscal(start) == [op |-> "add_fiscal_info", arg |-> [start |-> start]]

\* add_fiscal_info(fiscal_year_start_month=start)
add_fiscal_info_from ==
    /\ Planned("add_fiscal_info", PurchasePlans)
    /\ \E start \in 1..12 :
         IF "ORDER_DATE" \notin SelfDf.columns
         THEN NoOp(OpFiscal(start))
         ELSE IF \E i \in 1..Len(SelfDf.rows) : Unparseable(SelfDf.rows[i]["ORDER_DATE"])
         THEN Raises(OpFiscal(start))
         ELSE /\ InPlace(AddFiscalInfo(SelfDf, "ORDER_DATE", start))
              /\ Returns(OpFiscal(start))
    /\ UNCHANGED <<input0, handed>>
    /\ UNCHANGED <<joinVars, loaderVars, runVars, pagerVars>>

fiscal_get_result ==
    /\ Len(chain) = 2
    /\ chain[2].op = "add_fiscal_info"
    /\ get_result

FiscalInit ==
    /\ \E rws \in SeqsUpTo(FiscalRows, MaxFiscalRows) :
           /\ input0 = Table({"order_date"}, rws)
           /\ heap = <<Table({"order_date"}, rws)>>
    /\ engine = NoEngine
    /\ returned = NoValue
    /\ chain = <<>>
    /\ handed = {}
    /\ epc = "new"
    /\ JoinIdle
    /\ LoaderIdle
    /\ RunIdle
    /\ PagerIdle

FiscalNext ==
    \/ DataTransformer_init
    \/ purchase_standardize_columns
    \/ add_fiscal_info_from
    \/ fiscal_get_result

SpecFiscal == FiscalInit /\ [][FiscalNext]_vars

\* ------------------------------------------------------------------------
\* add_season in either hemisphere
\* (src/transformers/weather_transformer.py:209-254)
\* ------------------------------------------------------------------------

\* rows of a source of observations dated in the twelve months
MaxSeasonRows == 2

SeasonRows ==
    { [date |-> MonthDay[m]] : m \in 1..12 }
        \cup {[date |-> NULL], [date |-> "invalid-date"]}

HEMISPHERES == {"northern", "southern"}

OpSeason(hemisphere) == [op |-> "add_season", arg |-> [hemisphere |-> hemisphere]]

\* add_season(hemisphere=...)
add_season_in ==
    /\ Planned("add_season", WeatherPlans)
    /\ \E hemisphere \in HEMISPHERES :
         IF "OBSERVATION_DATE" \notin SelfDf.columns
         THEN NoOp(OpSeason(hemisphere))
         ELSE IF \E i \in 1..Len(SelfDf.rows) :
                    Unparseable(SelfDf.rows[i]["OBSERVATION_DATE"])
         THEN Raises(OpSeason(hemisphere))
         ELSE /\ InPlace(AddSeason(SelfDf, "OBSERVATION_DATE", hemisphere))
              /\ Returns(OpSeason(hemisphere))
    /\ UNCHANGED <<input0, handed>>
    /\ UNCHANGED <<joinVars, loaderVars, runVars, pagerVars>>

season_get_result ==
    /\ Len(chain) = 2
    /\ chain[2].op = "add_season"
    /\ get_result

SeasonInit ==
    /\ \E rws \in SeqsUpTo(SeasonRows, MaxSeasonRows) :
           /\ input0 = Table({"date"}, rws)
           /\ heap = <<Table({"date"}, rws)>>
    /\ engine = NoEngine
    /\ returned = NoValue
    /\ chain = <<>>
    /\ handed = {}
    /\ epc = "new"
    /\ JoinIdle
    /\ LoaderIdle
    /\ RunIdle
    /\ PagerIdle

SeasonNext ==
    \/ DataTransformer_init
    \/ weather_standardize_columns
    \/ add_season_in
    \/ season_get_result

SpecSeason == SeasonInit /\ [][SeasonNext]_vars

\* ------------------------------------------------------------------------
\* convert_temperature (src/transformers/weather_transformer.py:79-110)
\*
\* A temperature cell is a binary64 number: repr is its shortest decimal
\* form, which names the number, and micro is the number in millionths of a
\* degree, rounded.  The two formulas are evaluated in binary64 arithmetic
\* (round to nearest, ties to even), operation by operation as written.
\* ------------------------------------------------------------------------

\* rows of a table of temperatures
MaxTemperatureRows == 1

Degrees(repr, micro) == [repr |-> repr, micro |-> micro]

NaNDegrees == Degrees("nan", 0)

\* (x * 9/5) + 32 in binary64
celsius_to_fahrenheit(v) ==
    CASE v.repr = "-40" -> Degrees("-40", -40000000)
      [] v.repr = "0"   -> Degrees("32", 32000000)
      [] v.repr = "1"   -> Degrees("33.8", 33800000)
      [] v.repr = "32"  -> Degrees("89.6", 89600000)
      [] v.repr = "37"  -> Degrees("98.6", 98600000)
      [] v.repr = "100" -> Degrees("212", 212000000)
      [] v.repr = "nan" -> v

\* (x - 32) * 5/9 in binary64
fahrenheit_to_celsius(v) ==
    CASE v.repr = "-40"  -> Degrees("-40", -40000000)
      [] v.repr = "0"    -> Degrees("-17.77777777777778", -17777778)
      [] v.repr = "1"    -> Degrees("-17.22222222222222", -17222222)
      [] v.repr = "32"   -> Degrees("0", 0)
      [] v.repr = "33.8" -> Degrees("0.9999999999999984", 1000000)
      [] v.repr = "37"   -> Degrees("2.7777777777777777", 2777778)
      [] v.repr = "89.6" -> Degrees("32", 32000000)
      [] v.repr = "98.6" -> Degrees("37", 37000000)
      [] v.repr = "100"  -> Degrees("37.77777777777778", 37777778)
      [] v.repr = "212"  -> Degrees("100", 100000000)
      [] v.repr = "nan"  -> v

TemperatureCells0 ==
    {Degrees("-40", -40000000), Degrees("0", 0), Degrees("1", 1000000),
     Degrees("32", 32000000), Degrees("37", 37000000), Degrees("100", 100000000),
     NaNDegrees}

TemperatureRows ==
    [TEMPERATURE_F : TemperatureCells0, MIN_TEMPERATURE_F : TemperatureCells0,
     temperature : TemperatureCells0, HUMIDITY_PCT : {Degrees("65", 65000000)}]

TemperatureColumnSets ==
    {{"TEMPERATURE_F", "HUMIDITY_PCT"}, {"TEMPERATURE_F", "MIN_TEMPERATURE_F"},
     {"temperature"}, {"HUMIDITY_PCT"}}

\* only the column named TEMPERATURE_F
upper_is_TEMPERATURE_F(col) == col = "TEMPERATURE_F"

\* "TEMPERATURE" in col.upper()
upper_has_TEMPERATURE(col) ==
    col \in {"TEMPERATURE_F", "MIN_TEMPERATURE_F", "temperature"}

FROM_UNITS == {"celsius", "fahrenheit"}

OpConvert(from_unit) == [op |-> "convert_temperature", arg |-> [from_unit |-> from_unit]]

\* the loop over the columns: each is assigned where it is
ConvertTemperature(t, from_unit, columns) ==
    Table(t.columns,
          [i \in 1..Len(t.rows) |->
              [c \in t.columns |->
                  IF c \notin columns THEN t.rows[i][c]
                  ELSE IF from_unit = "celsius" THEN celsius_to_fahrenheit(t.rows[i][c])
                  ELSE fahrenheit_to_celsius(t.rows[i][c])]])

\* convert_temperature(from_unit=...), columns=None; a conversion from
\* celsius may be followed by one from fahrenheit
convert_temperature ==
    /\ epc = "ready"
    /\ \E from_unit \in FROM_UNITS :
         /\ \/ chain = <<>>
            \/ /\ Len(chain) = 1
               /\ chain[1].arg.from_unit = "celsius"
               /\ from_unit = "fahrenheit"
         /\ InPlace(ConvertTemperature(SelfDf, from_unit,
                        { col \in SelfDf.columns : upper_has_TEMPERATURE(col) }))
         /\ Returns(OpConvert(from_unit))
    /\ UNCHANGED <<input0, handed>>
    /\ UNCHANGED <<joinVars, loaderVars, runVars, pagerVars>>

temperature_get_result == chain # <<>> /\ get_result

TemperatureInit ==
    /\ \E cols \in TemperatureColumnSets :
         \E rws \in SeqsUpTo({ [c \in cols |-> r[c]] : r \in TemperatureRows },
                             MaxTemperatureRows) :
           /\ input0 = Table(cols, rws)
           /\ heap = <<Table(cols, rws)>>
    /\ engine = NoEngine
    /\ returned = NoValue
    /\ chain = <<>>
    /\ handed = {}
    /\ epc = "new"
    /\ JoinIdle
    /\ LoaderIdle
    /\ RunIdle
    /\ PagerIdle

TemperatureNext ==
    \/ DataTransformer_init
    \/ convert_temperature
    \/ temperature_get_result

SpecTemperature == TemperatureInit /\ [][TemperatureNext]_vars

\* ------------------------------------------------------------------------
\* Chunked extraction: CSVExtractor.extract_in_chunks
\* (src/extractors/csv_extractor.py:67-94) and
\* SnowflakeMarketplaceExtractor.extract_in_chunks
\* (src/extractors/snowflake_extractor.py:162-188).
\*
\* Both are generator functions: the call returns a generator and runs
\* nothing; each next() of the consumer runs the body up to the next yield.
\* The source is the sequence of its rows, a row being its position; the
\* query of the Snowflake extractor returns them in that order.
\* ------------------------------------------------------------------------

\* rows of a source, rows per page, and openings of a source
MaxPageSource == 4
MaxChunkSize == 3
MaxOpens == 2

ChunkedKinds == {"csv", "snowflake"}

\* ceil(n / k)
CeilDiv(n, k) == (n + k - 1) \div k

\* rows offset+1 .. offset+chunk_size of the source, fewer at its end
PageAt(rows, offset, chunk_size) ==
    SubSeq(rows, offset + 1,
           IF offset + chunk_size < Len(rows) THEN offset + chunk_size ELSE Len(rows))

Yield(page) ==
    /\ pages' = Append(pages, page)
    /\ pulls' = pulls + 1

\* StopIteration (or an exception) ends the generator
Stop(pc) ==
    /\ gen' = [gen EXCEPT !.pc = pc]
    /\ pages' = pages
    /\ pulls' = pulls + 1

\* extractor.extract_in_chunks(chunk_size): a new generator, nothing read
extract_in_chunks ==
    /\ pager.kind \in ChunkedKinds
    /\ opens < MaxOpens
    /\ gen.pc \in {"none", "done", "raised"}
    /\ opens' = opens + 1
    /\ gen' = [pc |-> "created", offset |-> 0, total_rows |-> 0, first_chunk |-> TRUE]
    /\ pages' = <<>>
    /\ pulls' = 0
    /\ UNCHANGED pager
    /\ UNCHANGED <<joinVars, loaderVars, runVars, engineVars>>

\* next() on the generator of the CSV extractor: the existence test on the
\* first call, then one step of pd.read_csv(chunksize=chunk_size).  A read
\* that finds no row left returns an empty table if it is the first read and
\* stops the iteration otherwise.
csv_next ==
    /\ pager.kind = "csv"
    /\ gen.pc \in {"created", "suspended"}
    /\ IF gen.pc = "created" /\ ~pager.exists
       THEN Stop("raised")
       ELSE LET chunk == PageAt(pager.rows, gen.offset, pager.chunk_size) IN
            IF chunk # <<>> \/ gen.first_chunk
            THEN /\ Yield(chunk)
                 /\ gen' = [gen EXCEPT !.pc = "suspended",
                                       !.offset = @ + Len(chunk),
                                       !.first_chunk = FALSE]
            ELSE Stop("done")
    /\ UNCHANGED <<pager, opens>>
    /\ UNCHANGED <<joinVars, loaderVars, runVars, engineVars>>

\* next() on the generator of the Snowflake extractor: the count query on
\* the first call, offset += chunk_size on the later ones, then the test of
\* the while loop and the page query
snowflake_next ==
    /\ pager.kind = "snowflake"
    /\ gen.pc \in {"created", "suspended"}
    /\ LET total_rows == IF gen.pc = "created" THEN Len(pager.rows) ELSE gen.total_rows
           offset == IF gen.pc = "created" THEN 0 ELSE gen.offset + pager.chunk_size
       IN IF offset < total_rows
          THEN /\ Yield(PageAt(pager.rows, offset, pager.chunk_size))
               /\ gen' = [gen EXCEPT !.pc = "suspended", !.offset = offset,
                                     !.total_rows = total_rows]
          ELSE Stop("done")
    /\ UNCHANGED <<pager, opens>>
    /\ UNCHANGED <<joinVars, loaderVars, runVars, engineVars>>

PagerInit ==
    /\ \E kind \in ChunkedKinds, n \in 0..MaxPageSource, k \in 1..MaxChunkSize,
          exists \in BOOLEAN :
         /\ kind = "snowflake" => exists
         /\ pager = [kind |-> kind, rows |-> [i \in 1..n |-> i], chunk_size |-> k,
                     exists |-> exists]
    /\ gen = NoGenerator
    /\ pages = <<>>
    /\ pulls = 0
    /\ opens = 0
    /\ JoinIdle
    /\ LoaderIdle
    /\ RunIdle
    /\ EngineIdle

PagerNext ==
    \/ extract_in_chunks
    \/ csv_next
    \/ snowflake_next

SpecPager == PagerInit /\ [][PagerNext]_vars

\* ------------------------------------------------------------------------
\* Properties of the correlation join
\* ------------------------------------------------------------------------

PRows == purchase_in.rows
WRows == weather_in.rows
RRows == result.rows

BothHaveLocation ==
    WEATHER_LOCATION_COL \in weather_in.columns /\
    PURCHASE_LOCATION_COL \in purchase_in.columns

\* purchase row p and weather row w have the same (date, upper-cased location) key
SameKey(p, w) ==
    /\ dt_date(to_datetime(p[PURCHASE_DATE_COL])) = dt_date(to_datetime(w[WEATHER_DATE_COL]))
    /\ BothHaveLocation =>
          str_upper(p[PURCHASE_LOCATION_COL]) = str_upper(w[WEATHER_LOCATION_COL])

\* output row r is purchase row p (its date parsed to a timestamp)
IsPurchase(r, p) ==
    \A c \in purchase_in.columns :
        r[c] = IF c = PURCHASE_DATE_COL THEN to_datetime(p[c]) ELSE p[c]

\* the name under which the output carries weather column c
WeatherOut(c) == IF c \in purchase_in.columns THEN c \o "_WEATHER" ELSE c

\* output row r carries the fields of weather row w
CarriesWeather(r, w) ==
    \A c \in weather_in.columns :
        r[WeatherOut(c)] = IF c = WEATHER_DATE_COL THEN to_datetime(w[c]) ELSE w[c]

\* every weather-side field of output row r is null
WeatherNull(r) == \A c \in weather_in.columns : r[WeatherOut(c)] = NULL

\* the join key of a weather row
WeatherKey(w) ==
    << dt_date(to_datetime(w[WEATHER_DATE_COL])),
       IF BothHaveLocation THEN str_upper(w[WEATHER_LOCATION_COL]) ELSE NULL >>

Matches(p) == { j \in 1..Len(WRows) : SameKey(p, WRows[j]) }

\* C1: correlate_with_purchases is a left join that never drops a purchase
\* row: every purchase row appears in the output, with the fields of every
\* weather row that has its (date, upper-cased location) key, and a purchase
\* row whose key matches no weather row is present with all weather-side
\* fields null.
C1_LeftJoinKeepsPurchases ==
    jpc = "returned" =>
      /\ result.columns = purchase_in.columns \cup {WeatherOut(c) : c \in weather_in.columns}
      /\ \A i \in 1..Len(PRows) :
            LET p == PRows[i] IN
            /\ \E k \in 1..Len(RRows) : IsPurchase(RRows[k], p)
            /\ \A j \in Matches(p) :
                  \E k \in 1..Len(RRows) :
                      IsPurchase(RRows[k], p) /\ CarriesWeather(RRows[k], WRows[j])
            /\ Matches(p) = {} =>
                  \A k \in 1..Len(RRows) : IsPurchase(RRows[k], p) => WeatherNull(RRows[k])

\* a join in which one purchase row is matched through a differently spelled
\* location and another purchase row has no weather row
C1_Witness ==
    /\ jpc = "returned"
    /\ BothHaveLocation
    /\ \E i \in 1..Len(PRows) : \E j \in Matches(PRows[i]) :
          PRows[i][PURCHASE_LOCATION_COL] # WRows[j][WEATHER_LOCATION_COL]
    /\ \E i \in 1..Len(PRows) : Matches(PRows[i]) = {}

RECURSIVE SumSeq(_)
SumSeq(s) == IF s = <<>> THEN 0 ELSE Head(s) + SumSeq(Tail(s))

Max(a, b) == IF a >= b THEN a ELSE b

\* C2: each purchase row appears once per weather row sharing its join key
\* and once when none matches: the output has sum over purchase rows of
\* max(1, matching weather rows) rows, which is the purchase row count when
\* the weather join keys are unique.
C2_OncePerMatch ==
    jpc = "returned" =>
      /\ Len(RRows) = SumSeq([i \in 1..Len(PRows) |->
                                  Max(1, Cardinality(Matches(PRows[i])))])
      /\ \A i \in 1..Len(PRows) :
            LET p == PRows[i]
                copies == Cardinality({ i2 \in 1..Len(PRows) : PRows[i2] = p })
            IN  /\ Cardinality({ k \in 1..Len(RRows) : IsPurchase(RRows[k], p) })
                      = copies * Max(1, Cardinality(Matches(p)))
                /\ \A j \in Matches(p) :
                      Cardinality({ k \in 1..Len(RRows) :
                                      IsPurchase(RRows[k], p) /\ CarriesWeather(RRows[k], WRows[j]) })
                        = copies * Cardinality({ j2 \in 1..Len(WRows) : WRows[j2] = WRows[j] })
      /\ (\A j1, j2 \in 1..Len(WRows) : j1 # j2 => WeatherKey(WRows[j1]) # WeatherKey(WRows[j2]))
            => Len(RRows) = Len(PRows)

\* a purchase row matched by two weather rows: the output is longer than the
\* purchase table
C2_Witness ==
    /\ jpc = "returned"
    /\ \E i \in 1..Len(PRows) : Cardinality(Matches(PRows[i])) >= 2
    /\ Len(RRows) > Len(PRows)

\* ------------------------------------------------------------------------
\* Properties of the loader
\* ------------------------------------------------------------------------

MergeCompleted == lop = "merge" /\ lpc \in {"returned", "raised"}

\* C3: SnowflakeLoader.merge never leaves its staging table behind: once
\* merge has completed, by returning or by raising, the staging table
\* TEMP_<table> does not exist in the warehouse.
C3_StagingAlwaysDropped ==
    MergeCompleted => ~warehouse[TempTable].exists

\* C5: load returns the count of rows written to the target table, and it
\* raises whenever the warehouse reports zero rows written for a non-empty
\* input table.
C5_LoadCountsAndRejectsZero ==
    (lop = "load" /\ lpc \in {"returned", "raised"}) =>
      /\ lpc = "returned" => lret = reported.nrows \/ (load_df = <<>> /\ lret = 0)
      /\ (load_df # <<>> /\ reported # NoReport /\ reported.nrows = 0) => lpc = "raised"

\* ------------------------------------------------------------------------
\* Properties of the orchestrator
\* ------------------------------------------------------------------------

ExtractStages == {"extract_purchase_orders", "extract_weather_data"}

\* C4: a load that fails during run is fatal: the result has status
\* "failed" with the triggering error message and the exception is re-raised
\* to the caller; a run in which no stage raises ends with status "success".
C4_LoadFailureIsFatal ==
    /\ exc.stage = "load_to_snowflake" =>
         /\ rpc = "raised"
         /\ results.status = "failed"
         /\ results.error = exc.message
    /\ exc = NoException => (rpc # "raised" /\ results.status = "success")
    /\ rpc = "returned" => (exc = NoException /\ results.status = "success")

\* the weather load fails after the purchase-order load succeeded
C4_Witness ==
    /\ rpc = "raised"
    /\ exc = [stage |-> "load_to_snowflake",
              message |-> "Failed to load data into WEATHER_DATA"]
    /\ Len(wh_loads) = 1

\* the source extracted in the same function as file source s
Sibling(s) == IF s = "csv" THEN "postgres" ELSE "snowflake_marketplace"

StageOf(s) == IF s \in {"csv", "postgres"} THEN "extract_purchase_orders"
              ELSE "extract_weather_data"

\* C6: a missing file source (CSV or XML not found) is caught per source:
\* it contributes no rows, the other configured sources are still extracted
\* and the run is not aborted by it.
C6_MissingFileSkipped ==
    \A s \in {"csv", "xml"} :
      sources[s] = "not_found" =>
        /\ source_rows[s] = 0
        /\ exc.message # SourceError(s, "not_found")
        /\ exc.stage # StageOf(s)
        /\ Sibling(s) \in config.extractors => sources[Sibling(s)] # "pending"
        /\ (s = "csv" /\ rpc # "extract_weather") =>
             frames.purchase_df = source_rows["postgres"]
        /\ (s = "xml" /\ rpc # "raised") =>
             frames.weather_df = source_rows["snowflake_marketplace"]

\* both files are missing, both databases deliver rows, the run succeeds
C6_Witness ==
    /\ rpc = "returned"
    /\ results.status = "success"
    /\ sources["csv"] = "not_found" /\ sources["xml"] = "not_found"
    /\ sources["postgres"] = "extracted" /\ source_rows["postgres"] > 0
    /\ sources["snowflake_marketplace"] = "extracted"
    /\ results.steps["extract"].purchase_orders = source_rows["postgres"]

\* C7: an extraction error of any kind in one source is logged, the source
\* contributes nothing and the pipeline continues: no single-source
\* extraction error aborts the run.
C7_AnySourceErrorTolerated ==
    \A s \in AllSources :
      sources[s] \in {"not_found", "error"} =>
        /\ source_rows[s] = 0
        /\ exc.stage # StageOf(s)
        /\ rpc # "raised" \/ exc.stage \notin ExtractStages

\* the stages run(extract, transform, load) executes for its flags
ExpectedStages(cfg) ==
    (IF cfg.extract THEN <<"extract_purchase_orders", "extract_weather_data">>
     ELSE <<>>) \o
    (IF cfg.transform
     THEN <<"transform_purchase_orders", "transform_weather_data",
            "create_analytics_table">>
     ELSE <<>>) \o
    (IF cfg.load THEN <<"load_to_snowflake">> ELSE <<>>)

IsPrefix(a, b) == Len(a) <= Len(b) /\ SubSeq(b, 1, Len(a)) = a

RunCompleted == rpc \in {"returned", "raised"}

\* C8: run executes exactly the stages whose flag is set, in the order
\* extraction, transformation (purchase, weather, correlation), load; it
\* records row counts only for the stages that ran; for every combination
\* of flags it completes with status "success" when no stage raises.
C8_StagesFollowFlags ==
    /\ IsPrefix(trace, ExpectedStages(config))
    /\ \A ph \in DOMAIN results.steps : config[ph]
    /\ "extract" \in DOMAIN results.steps =>
         /\ Len(trace) >= 2 /\ trace[2] = "extract_weather_data"
         /\ results.steps["extract"] = [purchase_orders |-> frames.purchase_df,
                                        weather_data |-> frames.weather_df]
    /\ "transform" \in DOMAIN results.steps =>
         /\ \E i \in 1..Len(trace) : trace[i] = "create_analytics_table"
         /\ results.steps["transform"] =
              [purchase_orders |-> frames.transformed_purchase_df,
               weather_data |-> frames.transformed_weather_df,
               analytics |-> frames.analytics_df]
    /\ "load" \in DOMAIN results.steps =>
         /\ trace[Len(trace)] = "load_to_snowflake"
         /\ results.steps["load"] = load_results
    /\ rpc = "returned" =>
         /\ trace = ExpectedStages(config)
         /\ DOMAIN results.steps = { ph \in {"extract", "transform", "load"} : config[ph] }
         /\ results.status = "success"
    /\ (exc = NoException /\ ~RunCompleted) => ENABLED RunNext

\* extraction and load without transformation, a combination the command
\* line does not offer: both stages run, the load has nothing to write
C8_Witness ==
    /\ rpc = "returned"
    /\ config.extract /\ ~config.transform /\ config.load /\ config.loader
    /\ trace = <<"extract_purchase_orders", "extract_weather_data", "load_to_snowflake">>
    /\ frames.purchase_df > 0
    /\ DOMAIN results.steps = {"extract", "load"}

\* ------------------------------------------------------------------------
\* Properties of the transform engine
\* ------------------------------------------------------------------------

Constructed == epc # "new"

InPlaceOps == {"add_column", "convert_types", "standardize_text"}

\* C9: the engine never aliases or mutates the caller's input table: once
\* constructed, and after any sequence of operations (including those that
\* assign columns in place, and get_result), the table the caller passed in
\* is a different object from the engine's, and from every table handed out,
\* and still holds exactly its original columns and rows.
C9_InputNeverAliasedOrMutated ==
    Constructed =>
        /\ engine.df # CallerRef
        /\ CallerRef \notin handed
        /\ heap[CallerRef] = input0

\* an in-place operation has changed the table made at construction, which
\* started out equal to the caller's
C9_Witness ==
    /\ epc = "ready"
    /\ Len(chain) = 1
    /\ chain[1].op \in InPlaceOps
    /\ input0.rows # <<>>
    /\ SelfDf # input0
    /\ heap[CallerRef] = input0

\* one operation of a chain, as a function of the table it is applied to
ApplyOp(o, t) ==
    CASE o.op = "drop_nulls"       -> dropna(t, o.arg, "any")
      [] o.op = "fill_nulls"       -> fillna(t, FILL_VALUES)
      [] o.op = "drop_duplicates"  ->
            pd_drop_duplicates(t, o.arg.subset, o.arg.keep)
      [] o.op = "rename_columns"   -> rename(t, COLUMN_MAPPING)
      [] o.op = "select_columns"   -> getitem_columns(t, SELECTED)
      [] o.op = "add_column"       ->
            IF o.arg = {"static"} THEN AddColumnStatic(t, "category", "A")
            ELSE AddColumnCallable(t, "doubled")
      [] o.op = "convert_types"    -> ConvertTypes(t, o.arg)
      [] o.op = "filter_rows"      ->
            getitem_mask(t, [i \in 1..Len(t.rows) |-> gt150(t.rows[i].value)])
      [] o.op = "standardize_text" -> StandardizeText(t, TEXT_COLUMNS, "upper")

\* the operations of a chain applied one after the other, leftmost first
RECURSIVE ChainResult(_, _)
ChainResult(t, ops) ==
    IF ops = <<>> THEN t ELSE ChainResult(ApplyOp(Head(ops), t), Tail(ops))

C11_HandedOutTableNeverChanges ==
    [][\A id \in handed : heap'[id] = heap[id]]_vars

\* r is s with some rows removed: same rows, same relative order
RECURSIVE IsSubsequence(_, _)
IsSubsequence(r, s) ==
    IF r = <<>> THEN TRUE
    ELSE IF s = <<>> THEN FALSE
    ELSE IF Head(r) = Head(s) THEN IsSubsequence(Tail(r), Tail(s))
    ELSE IsSubsequence(r, Tail(s))

ColumnsOf(t, subset) == IF subset = AllColumns THEN t.columns ELSE subset

\* the step just taken is a completed call of the named operation
Completed(name) ==
    /\ epc = "ready"
    /\ epc' = "ready"
    /\ Len(chain') = Len(chain) + 1
    /\ chain'[Len(chain')].op = name

\* C12: drop_nulls(columns=C, how="any") yields a table in which no row has
\* a null in any column of C, and whose rows are rows of the table it was
\* applied to: rows are only removed, never added or changed, their
\* relative order and the columns are kept.
C12_DropNullsOnlyRemovesNullRows ==
    [][Completed("drop_nulls") =>
          LET T == heap[engine.df]
              R == heap'[engine'.df]
              C == ColumnsOf(T, chain'[Len(chain')].arg)
          IN /\ \A i \in 1..Len(R.rows) : \A c \in C : ~isna(R.rows[i][c])
             /\ R.columns = T.columns
             /\ IsSubsequence(R.rows, T.rows)]_vars

\* drop_nulls on the name column removed one of two rows and kept the other
C12_Witness ==
    /\ epc = "ready"
    /\ chain = <<OpDropNulls({"name"})>>
    /\ Len(input0.rows) = 2
    /\ Len(SelfDf.rows) = 1
    /\ SelfDf.rows[1] \in {input0.rows[1], input0.rows[2]}

LastOp == chain[Len(chain)]

\* C13: drop_duplicates(columns=C, keep="first") is idempotent: after one
\* application no two rows of the engine's table agree on all columns of C,
\* and applying it again yields the same table.
C13_DropDuplicatesIdempotent ==
    (epc = "ready" /\ chain # <<>> /\ LastOp.op = "drop_duplicates"
       /\ LastOp.arg.keep = "first") =>
        LET R == SelfDf
            C == ColumnsOf(R, LastOp.arg.subset)
        IN /\ \A i, j \in 1..Len(R.rows) :
                 i # j => \E c \in C : R.rows[i][c] # R.rows[j][c]
           /\ pd_drop_duplicates(R, LastOp.arg.subset, "first") = R
           /\ (Len(chain) = 2 /\ chain[1].op = "drop_duplicates"
                 /\ chain[1].arg = chain[2].arg) =>
                 R = ApplyOp(chain[1], input0)

\* two rows with the same value, deduplicated twice: one row is left
C13_Witness ==
    /\ epc = "ready"
    /\ chain = <<OpDropDuplicates({"value"}, "first"),
                 OpDropDuplicates({"value"}, "first")>>
    /\ Len(input0.rows) = 2
    /\ input0.rows[1] # input0.rows[2]
    /\ SelfDf.rows = <<input0.rows[1]>>

\* the cells of a column that the cast to dtype cannot parse
Malformed(v, dtype) ==
    CASE dtype = "datetime" -> v = "invalid-date"
      [] dtype = "float"    -> v = "abc"
      [] dtype = "int"      -> v \in {"abc", "1.5"}

\* C14: malformed values are never fatal during a cast: convert_types to
\* date, floating-point or integer raises no error, keeps every row, and
\* turns each value it cannot parse into null.
C14_MalformedCastNeverFatal ==
    (Len(chain) = 1 /\ chain[1].op = "convert_types") =>
        /\ epc = "ready"
        /\ Len(SelfDf.rows) = Len(input0.rows)
        /\ \A col \in DOMAIN chain[1].arg : \A i \in 1..Len(input0.rows) :
              Malformed(input0.rows[i][col], chain[1].arg[col]) =>
                  isna(SelfDf.rows[i][col])

\* ------------------------------------------------------------------------
\* Properties of the purchase-order and weather transformers
\* ------------------------------------------------------------------------

\* the columns a step of a chain expects to find in the table
ExpectedColumns(o) ==
    CASE o.op = "drop_nulls"           -> o.arg
      [] o.op = "drop_duplicates"      -> o.arg.subset
      [] o.op = "calculate_totals"     -> {"QUANTITY", "UNIT_PRICE"}
      [] o.op = "validate_order_dates" -> {"ORDER_DATE"}
      [] o.op = "categorize_orders"    -> {"TOTAL_AMOUNT"}
      [] o.op = "add_fiscal_info"      -> {"ORDER_DATE"}
      [] o.op = "add_season"           -> {"OBSERVATION_DATE"}
      [] OTHER                         -> {}

\* the step just taken is a call of an operation on the engine
Called == epc = "ready" /\ Len(chain') = Len(chain) + 1

\* C15: whenever a column that a step of the orchestrator's purchase-order
\* or weather chain expects is absent from the table, the step does nothing
\* instead of failing: it raises no error, leaves the table unchanged and
\* returns the engine, so the chain goes on.
C15_MissingColumnIsNoOp ==
    [][(Called /\ ~(ExpectedColumns(chain'[Len(chain')]) \subseteq SelfDf.columns)) =>
          /\ epc' = "ready"
          /\ returned' = ReturnSelf
          /\ heap'[engine'.df] = SelfDf]_vars

ORDER_CATEGORIES == {"UNKNOWN", "SMALL", "MEDIUM", "LARGE", "ENTERPRISE"}

\* the engine's table after a completed categorize_orders that found the
\* amount column
Categorized ==
    /\ epc = "ready"
    /\ chain # <<>>
    /\ LastOp.op = "categorize_orders"
    /\ "TOTAL_AMOUNT" \in SelfDf.columns

\* C17: categorize_orders gives every row exactly one of the five
\* categories, with inclusive lower bounds: null -> UNKNOWN, amount < 100 ->
\* SMALL, 100 <= amount < 1000 -> MEDIUM, 1000 <= amount < 10000 -> LARGE,
\* amount >= 10000 -> ENTERPRISE; so 99.99 is SMALL, 100 MEDIUM, 999.99
\* MEDIUM, 1000 LARGE, 9999.99 LARGE and 10000 ENTERPRISE (amounts in cents).
C17_CategoryBoundaries ==
    Categorized =>
        \A i \in 1..Len(SelfDf.rows) :
            LET a == SelfDf.rows[i]["TOTAL_AMOUNT"]
                c == SelfDf.rows[i]["ORDER_CATEGORY"]
            IN /\ c \in ORDER_CATEGORIES
               /\ (c = "UNKNOWN") <=> (a = NaN)
               /\ (c = "SMALL") <=> (a # NaN /\ a < 10000)
               /\ (c = "MEDIUM") <=> (10000 <= a /\ a < 100000)
               /\ (c = "LARGE") <=> (100000 <= a /\ a < 1000000)
               /\ (c = "ENTERPRISE") <=> (1000000 <= a)
               /\ a = 9999 => c = "SMALL"
               /\ a = 10000 => c = "MEDIUM"
               /\ a = 99999 => c = "MEDIUM"
               /\ a = 100000 => c = "LARGE"
               /\ a = 999999 => c = "LARGE"
               /\ a = 1000000 => c = "ENTERPRISE"

\* an amount of exactly 100 was categorized, as MEDIUM
C17_Witness ==
    /\ Categorized
    /\ Len(SelfDf.rows) = 1
    /\ SelfDf.rows[1]["TOTAL_AMOUNT"] = 10000
    /\ SelfDf.rows[1]["ORDER_CATEGORY"] = "MEDIUM"

\* the single input row of the end-to-end scenario (unit_price 25.50)
ScenarioInput ==
    Table({"po_number", "order_date", "vendor", "quantity", "unit_price"},
          <<[po_number |-> "PO-001", order_date |-> "2024-01-15", vendor |-> "Acme",
             quantity |-> 100, unit_price |-> 2550]>>)

ScenarioChain ==
    /\ input0 = ScenarioInput
    /\ Len(chain) = 3
    /\ chain[1].op = "standardize_columns"
    /\ chain[2].op = "calculate_totals"
    /\ chain[3].op = "categorize_orders"

\* C20: end to end, the row {po_number "PO-001", order_date "2024-01-15",
\* vendor "Acme", quantity 100, unit_price 25.50} passed through
\* standardize_columns, calculate_totals and categorize_orders yields exactly
\* one row, with purchase order id "PO-001", total amount 2550.00 and order
\* category "LARGE"; get_result hands out that table.
C20_EndToEndPurchase ==
    ScenarioChain =>
        /\ epc = "ready"
        /\ Len(SelfDf.rows) = 1
        /\ SelfDf.rows[1]["PURCHASE_ORDER_ID"] = "PO-001"
        /\ SelfDf.rows[1]["TOTAL_AMOUNT"] = 2550 * CENTS
        /\ SelfDf.rows[1]["ORDER_CATEGORY"] = "LARGE"
        /\ returned.kind = "table" => heap[returned.id] = SelfDf

\* the scenario's chain has run and get_result has handed out its table
C20_Witness ==
    /\ ScenarioChain
    /\ returned.kind = "table"
    /\ Len(heap[returned.id].rows) = 1
    /\ heap[returned.id].rows[1]["ORDER_CATEGORY"] = "LARGE"

\* C16: an empty table survives every operation of the engine: a call on an
\* engine whose table has zero rows raises no error and leaves a table with
\* zero rows.
C16_EmptyTableSurvives ==
    [][(Called /\ SelfDf.rows = <<>>) =>
          /\ epc' = "ready"
          /\ heap'[engine'.df].rows = <<>>]_vars

\* the value of a field as the severity rule reads it: null when the row has
\* no such field
FieldOrNull(row, cols, c) == IF c \in cols THEN row[c] ELSE NaN

\* the three terms of the rule, in degrees, hundredths of an inch and mph
RuleTemperature(x) ==
    CASE isnan(x)           -> 0
      [] x < 32 \/ x > 100  -> 2
      [] x < 40 \/ x > 90   -> 1
      [] OTHER              -> 0

RulePrecipitation(x) ==
    CASE isnan(x) -> 0
      [] x > 100  -> 2
      [] x > 50   -> 1
      [] OTHER    -> 0

RuleWind(x) ==
    CASE isnan(x) -> 0
      [] x > 30   -> 2
      [] x > 15   -> 1
      [] OTHER    -> 0

RuleScore(row, cols) ==
    RuleTemperature(FieldOrNull(row, cols, "TEMPERATURE_F"))
    + RulePrecipitation(FieldOrNull(row, cols, "PRECIPITATION_INCHES"))
    + RuleWind(FieldOrNull(row, cols, "WIND_SPEED_MPH"))

\* the engine holds a table that add_weather_severity has labelled
Labelled == engine # NoEngine /\ "WEATHER_SEVERITY" \in SelfDf.columns

\* C18: the label add_weather_severity gives a row is the bucket of the
\* row's score, where the score is the sum of the temperature, precipitation
\* and wind terms of the rule (a missing or null field contributing 0) and
\* is in 0..6: SEVERE iff score >= 4, MODERATE iff 2 <= score <= 3, NORMAL
\* iff score <= 1.
C18_SeverityIsBucketedScore ==
    Labelled =>
        \A i \in 1..Len(SelfDf.rows) :
            LET row == SelfDf.rows[i]
                score == RuleScore(row, SelfDf.columns)
                label == row["WEATHER_SEVERITY"]
            IN /\ score \in 0..6
               /\ label \in {"SEVERE", "MODERATE", "NORMAL"}
               /\ label = "SEVERE" <=> score >= 4
               /\ label = "MODERATE" <=> (2 <= score /\ score <= 3)
               /\ label = "NORMAL" <=> score <= 1

\* a labelled row whose score of 4 is made of all three terms
C18_Witness ==
    /\ Labelled
    /\ \E i \in 1..Len(SelfDf.rows) :
         /\ {"TEMPERATURE_F", "PRECIPITATION_INCHES", "WIND_SPEED_MPH"}
                \subseteq SelfDf.columns
         /\ SelfDf.rows[i]["TEMPERATURE_F"] = 101
         /\ SelfDf.rows[i]["PRECIPITATION_INCHES"] = 51
         /\ SelfDf.rows[i]["WIND_SPEED_MPH"] = 16
         /\ SelfDf.rows[i]["WEATHER_SEVERITY"] = "SEVERE"

\* a labelled row of 20F, no precipitation and no wind
ColdDryCalm(row, cols) ==
    /\ {"TEMPERATURE_F", "PRECIPITATION_INCHES", "WIND_SPEED_MPH"} \subseteq cols
    /\ row["TEMPERATURE_F"] = 20
    /\ row["PRECIPITATION_INCHES"] = 0
    /\ row["WIND_SPEED_MPH"] = 0

\* a labelled row of 25F and 1.2in of precipitation, whatever the wind
ColdWet(row, cols) ==
    /\ {"TEMPERATURE_F", "PRECIPITATION_INCHES"} \subseteq cols
    /\ row["TEMPERATURE_F"] = 25
    /\ row["PRECIPITATION_INCHES"] = 120

\* C19 as stated: add_weather_severity labels a row of 20F, precipitation 0
\* and wind 0 NORMAL, and a row of 25F and 1.2in of precipitation SEVERE.
C19_ColdDryCalmIsNormal ==
    Labelled =>
        \A i \in 1..Len(SelfDf.rows) :
            LET row == SelfDf.rows[i] IN
            /\ ColdDryCalm(row, SelfDf.columns) => row["WEATHER_SEVERITY"] = "NORMAL"
            /\ ColdWet(row, SelfDf.columns) => row["WEATHER_SEVERITY"] = "SEVERE"

\* C19 as amended: add_weather_severity labels a row of 20F, precipitation 0
\* and wind 0 MODERATE (20 < 32 contributes 2), and a row of 25F and 1.2in
\* of precipitation SEVERE.
C19_ColdDryCalmIsModerate ==
    Labelled =>
        \A i \in 1..Len(SelfDf.rows) :
            LET row == SelfDf.rows[i] IN
            /\ ColdDryCalm(row, SelfDf.columns) => row["WEATHER_SEVERITY"] = "MODERATE"
            /\ ColdWet(row, SelfDf.columns) => row["WEATHER_SEVERITY"] = "SEVERE"

C19_Witness ==
    /\ Labelled
    /\ \E i \in 1..Len(SelfDf.rows) :
         /\ ColdDryCalm(SelfDf.rows[i], SelfDf.columns)
         /\ SelfDf.rows[i]["WEATHER_SEVERITY"] = "MODERATE"

\* C21: the purchase-order standardize_columns renames every column whose
\* case-sensitive name is a known synonym to its canonical name and keeps
\* every other name; the number of rows, the number of columns and every
\* cell are preserved, and the names of the result are distinct, so that the
\* table still maps each column name to one value per row.
C21_StandardizeKeepsTableAMapping ==
    [][Completed("standardize_columns") =>
          LET old == SelfDf
              new == heap'[engine'.df]
          IN /\ Len(new.rows) = Len(old.rows)
             /\ Len(new.labels) = Len(old.labels)
             /\ new.rows = old.rows
             /\ \A j \in 1..Len(old.labels) :
                   new.labels[j] =
                       IF old.labels[j] \in DOMAIN PO_COLUMN_MAPPING
                       THEN PO_COLUMN_MAPPING[old.labels[j]]
                       ELSE old.labels[j]
             /\ Distinct(new.labels)]_vars

\* quantity x unit price of a row, null when either is null
RowProduct(row) ==
    IF row["QUANTITY"] = NaN \/ row["UNIT_PRICE"] = NaN THEN NaN
    ELSE row["QUANTITY"] * row["UNIT_PRICE"]

\* C22: calculate_totals adds a TOTAL_AMOUNT column equal to quantity x unit
\* price per row exactly when the table has no TOTAL_AMOUNT column and has
\* both QUANTITY and UNIT_PRICE; in every other case the table is left as it
\* was, and an existing TOTAL_AMOUNT column is never overwritten.
C22_TotalsOnlyWhenMissing ==
    [][Completed("calculate_totals") =>
          LET old == SelfDf
              new == heap'[engine'.df]
          IN IF "TOTAL_AMOUNT" \notin old.columns
                /\ {"QUANTITY", "UNIT_PRICE"} \subseteq old.columns
             THEN /\ new.columns = old.columns \cup {"TOTAL_AMOUNT"}
                  /\ Len(new.rows) = Len(old.rows)
                  /\ \A i \in 1..Len(old.rows) :
                        /\ new.rows[i]["TOTAL_AMOUNT"] = RowProduct(old.rows[i])
                        /\ \A c \in old.columns : new.rows[i][c] = old.rows[i][c]
             ELSE new = old]_vars

\* calculate_totals has derived 100 x 25.50 = 2550.00
C22_Witness ==
    /\ epc = "ready"
    /\ chain # <<>>
    /\ LastOp.op = "calculate_totals"
    /\ input0.rows # <<>>
    /\ "total" \notin input0.columns
    /\ SelfDf.rows # <<>>
    /\ "TOTAL_AMOUNT" \in SelfDf.columns
    /\ SelfDf.rows[1]["TOTAL_AMOUNT"] = 100 * 2550

\* the date of a row is a date, and within the bounds that were given
InRange(v, min_date, max_date) ==
    /\ to_datetime(v) # NULL
    /\ min_date # NULL => Instant(to_datetime(min_date)) <= Instant(to_datetime(v))
    /\ max_date # NULL => Instant(to_datetime(v)) <= Instant(to_datetime(max_date))

RECURSIVE RowsInRange(_, _, _)
RowsInRange(rws, min_date, max_date) ==
    IF rws = <<>> THEN <<>>
    ELSE (IF InRange(Head(rws)["ORDER_DATE"], min_date, max_date)
          THEN <<[Head(rws) EXCEPT !["ORDER_DATE"] = to_datetime(@)]>> ELSE <<>>)
         \o RowsInRange(Tail(rws), min_date, max_date)

FiscalDone ==
    /\ epc = "ready"
    /\ chain # <<>>
    /\ LastOp.op = "add_fiscal_info"
    /\ "FISCAL_YEAR" \in SelfDf.columns

\* C24: add_fiscal_info(date_column, s) gives every row dated in year y and
\* month m, for every start month s in 1..12, the fiscal year y if m >= s
\* and y - 1 if m < s, and the fiscal quarter ((m - s) mod 12) div 3 + 1,
\* which is in 1..4; with s = 1 they are the calendar year and the calendar
\* quarter.
C24_FiscalYearAndQuarter ==
    FiscalDone =>
        \A i \in 1..Len(SelfDf.rows) :
            LET raw == input0.rows[i]["order_date"] IN
            raw # NULL =>
                LET m == MonthOf(raw, MonthDay)
                    y == 2024
                    s == LastOp.arg.start
                    row == SelfDf.rows[i]
                IN /\ m >= s => row["FISCAL_YEAR"] = y
                   /\ m < s => row["FISCAL_YEAR"] = y - 1
                   /\ row["FISCAL_QUARTER"] = ((m - s) % 12) \div 3 + 1
                   /\ row["FISCAL_QUARTER"] \in 1..4
                   /\ s = 1 => /\ row["FISCAL_YEAR"] = y
                               /\ row["FISCAL_QUARTER"] = (m - 1) \div 3 + 1

\* February under a fiscal year that starts in April: the year before, and
\* the fourth quarter
C24_Witness ==
    /\ FiscalDone
    /\ LastOp.arg.start = 4
    /\ Len(SelfDf.rows) = 1
    /\ input0.rows[1]["order_date"] = "2024-02-10"
    /\ SelfDf.rows[1]["FISCAL_YEAR"] = 2023
    /\ SelfDf.rows[1]["FISCAL_QUARTER"] = 4

\* the seasons of the northern hemisphere, month by month
NorthernSeason ==
    <<"WINTER", "WINTER", "SPRING", "SPRING", "SPRING", "SUMMER",
      "SUMMER", "SUMMER", "FALL", "FALL", "FALL", "WINTER">>

Opposite(season) ==
    CASE season = "WINTER" -> "SUMMER"
      [] season = "SUMMER" -> "WINTER"
      [] season = "SPRING" -> "FALL"
      [] season = "FALL"   -> "SPRING"

SeasonDone ==
    /\ epc = "ready"
    /\ chain # <<>>
    /\ LastOp.op = "add_season"
    /\ "SEASON" \in SelfDf.columns

\* C25: add_season gives a row dated in month m, for hemisphere "northern",
\* WINTER for 12, 1, 2, SPRING for 3-5, SUMMER for 6-8 and FALL for 9-11,
\* and for hemisphere "southern" the northern season with WINTER and SUMMER
\* swapped and SPRING and FALL swapped.
C25_SeasonOfMonth ==
    SeasonDone =>
        \A i \in 1..Len(SelfDf.rows) :
            LET raw == input0.rows[i]["date"] IN
            raw # NULL =>
                LET m == MonthOf(raw, MonthDay) IN
                SelfDf.rows[i]["SEASON"] =
                    IF LastOp.arg.hemisphere = "northern"
                    THEN NorthernSeason[m]
                    ELSE Opposite(NorthernSeason[m])

\* January and July in the southern hemisphere
C25_Witness ==
    /\ SeasonDone
    /\ LastOp.arg.hemisphere = "southern"
    /\ Len(SelfDf.rows) = 2
    /\ input0.rows[1]["date"] = "2024-01-10"
    /\ input0.rows[2]["date"] = "2024-07-10"
    /\ SelfDf.rows[1]["SEASON"] = "SUMMER"
    /\ SelfDf.rows[2]["SEASON"] = "WINTER"

\* the names of the model's columns that contain TEMPERATURE, in either case
NamedTemperature == {"TEMPERATURE_F", "MIN_TEMPERATURE_F", "temperature"}

\* the calls made so far are conversions from the given units, in order
Converted_from(units) ==
    /\ epc = "ready"
    /\ Len(chain) = Len(units)
    /\ \A k \in 1..Len(units) : chain[k].arg.from_unit = units[k]

\* 0 C becomes 32 F and 32 F becomes 0 C, in every column named TEMPERATURE
FreezingPoint ==
    \A i \in 1..Len(input0.rows) : \A c \in NamedTemperature \cap input0.columns :
        /\ (Converted_from(<<"celsius">>) /\ input0.rows[i][c].repr = "0")
              => SelfDf.rows[i][c].repr = "32"
        /\ (Converted_from(<<"fahrenheit">>) /\ input0.rows[i][c].repr = "32")
              => SelfDf.rows[i][c].repr = "0"

\* two temperatures differ by no more than a millionth of a degree
Close(a, b) ==
    /\ (a.repr = "nan") <=> (b.repr = "nan")
    /\ a.micro - b.micro \in -1..1

\* C26 as stated: convert_temperature without a column list maps 0 C to 32 F
\* and 32 F to 0 C in every column whose name contains TEMPERATURE, and a
\* conversion from celsius followed by one from fahrenheit restores every
\* original value.
C26_RoundTripRestoresExactly ==
    /\ FreezingPoint
    /\ Converted_from(<<"celsius", "fahrenheit">>) => SelfDf = input0

\* C26 as amended: convert_temperature without a column list maps 0 C to
\* 32 F and 32 F to 0 C in every column whose name contains TEMPERATURE, and
\* a conversion from celsius followed by one from fahrenheit restores every
\* original value to within floating-point tolerance (a millionth of a
\* degree here), the other columns exactly.
C26_RoundTripRestoresClosely ==
    /\ FreezingPoint
    /\ Converted_from(<<"celsius", "fahrenheit">>) =>
          /\ SelfDf.columns = input0.columns
          /\ Len(SelfDf.rows) = Len(input0.rows)
          /\ \A i \in 1..Len(input0.rows) : \A c \in input0.columns :
                IF c \in NamedTemperature
                THEN Close(SelfDf.rows[i][c], input0.rows[i][c])
                ELSE SelfDf.rows[i][c] = input0.rows[i][c]

\* 1 C has gone to 33.8 F and come back as 0.9999999999999984 C
C26_Witness ==
    /\ Converted_from(<<"celsius", "fahrenheit">>)
    /\ "MIN_TEMPERATURE_F" \in SelfDf.columns
    /\ Len(SelfDf.rows) = 1
    /\ input0.rows[1]["MIN_TEMPERATURE_F"].repr = "1"
    /\ SelfDf.rows[1]["MIN_TEMPERATURE_F"].repr = "0.9999999999999984"

\* ------------------------------------------------------------------------
\* Properties of chunked extraction
\* ------------------------------------------------------------------------

\* the consumer has drawn the generator to its end
Exhausted == gen.pc = "done"

\* C27: chunked extraction of a source of N rows with chunk size k > 0
\* yields ceil(N/k) pages in source order, every page but the last of
\* exactly k rows and the last of 1 to k rows, whose concatenation is the
\* source; a page is produced only when the consumer asks for one, and
\* opening the source again starts from the first page.
C27_PagesCoverTheSource ==
    /\ Len(pages) <= pulls
    /\ gen.pc = "created" => pages = <<>>
    /\ pages # <<>> => pages[1] = PageAt(pager.rows, 0, pager.chunk_size)
    /\ Exhausted =>
          /\ Len(pages) = CeilDiv(Len(pager.rows), pager.chunk_size)
          /\ \A i \in 1..Len(pages) :
                IF i < Len(pages) THEN Len(pages[i]) = pager.chunk_size
                ELSE Len(pages[i]) \in 1..pager.chunk_size
          /\ Flatten(pages) = pager.rows

\* ------------------------------------------------------------------------
\* Properties of the analytics table and the warehouse load
\* ------------------------------------------------------------------------

Correlated == \E i \in 1..Len(trace) : trace[i] = "create_analytics_table"

LoadFailure(table) == "Failed to load data into " \o table

\* the tables on which loader.load was called: those written, and the one
\* whose load raised
Attempted ==
    { wh_loads[i][1] : i \in 1..Len(wh_loads) } \cup
    { t \in {PURCHASE_ORDERS, WEATHER_DATA, PURCHASE_WEATHER_ANALYTICS} :
        exc.stage = "load_to_snowflake" /\ exc.message = LoadFailure(t) }

\* C28: the correlation join runs only when both transformed tables are
\* non-empty: if either is empty (also purchase rows without weather rows)
\* create_analytics_table returns a table of zero rows without raising, and
\* no analytics load is attempted.
C28_NoJoinWithoutBothTables ==
    (frames.transformed_purchase_df = 0 \/ frames.transformed_weather_df = 0) =>
        /\ frames.analytics_df = 0
        /\ exc.stage # "create_analytics_table"
        /\ "transform" \in DOMAIN results.steps =>
             results.steps["transform"].analytics = 0
        /\ PURCHASE_WEATHER_ANALYTICS \notin Attempted
        /\ PURCHASE_WEATHER_ANALYTICS \notin DOMAIN load_results

\* purchase rows exist, no weather rows do: the run loads the purchase
\* orders and nothing else
C28_Witness ==
    /\ rpc = "returned"
    /\ Correlated
    /\ frames.transformed_purchase_df > 0
    /\ frames.transformed_weather_df = 0
    /\ results.steps["transform"].analytics = 0
    /\ Attempted = {PURCHASE_ORDERS}

\* the three targets in the order load_to_snowflake visits them, each with
\* the frame it is loaded from
LOAD_ORDER == <<PURCHASE_ORDERS, WEATHER_DATA, PURCHASE_WEATHER_ANALYTICS>>

LoadedFrom == <<"transformed_purchase_df", "transformed_weather_df", "analytics_df">>

\* the targets written so far, in the order they were written
Written == [i \in 1..Len(wh_loads) |-> wh_loads[i][1]]

\* the targets among the first k of LOAD_ORDER whose frame has rows
NonEmptyAmong(k) ==
    SelectSeq(SubSeq(LOAD_ORDER, 1, k),
              LAMBDA t : \E i \in 1..3 : LOAD_ORDER[i] = t /\ frames[LoadedFrom[i]] > 0)

\* the blocks of load_to_snowflake that have been left when control is at pc
BlocksDone(pc) ==
    CASE pc = "load_purchase_orders" -> 0
      [] pc = "load_weather_data"    -> 1
      [] pc = "load_analytics"       -> 2
      [] pc = "load_return"          -> 3

LoadRaisedAt(i) ==
    rpc = "raised" /\ exc = [stage |-> "load_to_snowflake",
                             message |-> LoadFailure(LOAD_ORDER[i])]

\* C29: load_to_snowflake loads purchase orders, weather data, analytics in
\* that order and skips each empty table; when one load raises no later
\* table is loaded and the tables already loaded in the run stay loaded, so
\* a failed run leaves a strict prefix of the targets it had to write.
C29_LoadOrderAndNoRollback ==
    /\ [](/\ rpc \in {"load_purchase_orders", "load_weather_data",
                      "load_analytics", "load_return"} =>
                Written = NonEmptyAmong(BlocksDone(rpc))
          /\ \A i \in 1..3 :
               LoadRaisedAt(i) =>
                 /\ frames[LoadedFrom[i]] > 0
                 /\ Written = NonEmptyAmong(i - 1)
                 /\ Len(Written) < Len(NonEmptyAmong(3))
                 /\ IsPrefix(Written, NonEmptyAmong(3))
                 /\ IsPrefix(Written, LOAD_ORDER) /\ Len(Written) < 3
          /\ (rpc = "returned" /\ config.load /\ config.loader) =>
                Written = NonEmptyAmong(3))
    /\ [][IsPrefix(wh_loads, wh_loads')]_vars

\* the analytics load raises after purchase orders and weather data were
\* written: two of the three targets stay written
C29_Witness ==
    /\ LoadRaisedAt(3)
    /\ Written = <<PURCHASE_ORDERS, WEATHER_DATA>>
    /\ results.status = "failed"

\* run has entered load_to_snowflake on a pipeline one of whose required
\* connection parameters is missing or names an unset environment variable
LoadWithoutLoader ==
    /\ \E k \in LOADER_REQUIRED :
         \/ config.snowflake[k] = NULL
         \/ config.snowflake[k] = "${SNOWFLAKE_UNSET}"
    /\ trace # <<>> /\ trace[Len(trace)] = "load_to_snowflake"

\* C30: when no warehouse loader is configured, a run with load enabled
\* writes nothing, records an empty load result, raises no error in its
\* load stage and ends with status "success", also when the transformed
\* tables are non-empty.
C30_MissingLoaderIsSilent ==
    /\ config.loader = all_present(config.snowflake, LOADER_REQUIRED)
    /\ ~config.loader => (wh_loads = <<>> /\ load_results = <<>>)
    /\ LoadWithoutLoader =>
         /\ ~config.loader
         /\ rpc \in {"finish", "returned"}
         /\ exc = NoException
         /\ results.status = "success"
         /\ results.error = NULL
         /\ "load" \in DOMAIN results.steps
         /\ results.steps["load"] = <<>>
         /\ rpc = "finish" => ENABLED run_return

\* all three transformed tables have rows, the pipeline has no loader: the
\* run returns "success" with an empty load result
C30_Witness ==
    /\ rpc = "returned"
    /\ config.snowflake["password"] = "${SNOWFLAKE_UNSET}"
    /\ LoadWithoutLoader
    /\ frames.transformed_purchase_df > 0
    /\ frames.transformed_weather_df > 0
    /\ frames.analytics_df > 0
    /\ results.status = "success"
    /\ results.steps["load"] = <<>>

====
